---- MODULE Spec2Model ----
(***************************************************************************)
(* State-machine model of the dispatch platform's process-local            *)
(* subsystems: the circuit breaker (028-error-handler-circuit-breaker.js), *)
(* the resource manager (024-smart-resource-management.js), the background *)
(* job scheduler and the CacheManager (unnamed/part_008,                   *)
(* 017-redis-caching-performance.js) and the spatial driver index          *)
(* (023-optimized-driver-search.js).                                       *)
(*                                                                         *)
(* JavaScript runs one synchronous segment at a time: every action below   *)
(* is the code between two suspension points (await, timer), so the        *)
(* interleavings of the actions are the interleavings the event loop can   *)
(* produce.  Each subsystem has its own specification over the shared      *)
(* variables; the variables of the other subsystems stay unchanged.        *)
(***************************************************************************)
EXTENDS Integers, Sequences, FiniteSets, TLC

VARIABLES
    now,              \* Date.now(), in ms
    circuitBreakers,  \* CircuitBreakerErrorHandler.circuitBreakers: key -> breaker
    cfg,              \* the options every run call of the behaviour passes
    run,              \* per caller: the position of its handleAsyncWithCircuitBreaker call
    failStreak,       \* history: per key, consecutive completed runs that failed (capped)
    lastStep,         \* history: what the last breaker step did (for the step properties)
    resourceUsage,    \* SmartResourceManager.resourceUsage: resource type -> current
    task,             \* per task: the position of its executeWithResourceManagement call
    lastHeapSample,   \* history: the heapUsed the resource sampler read last
    lastOp,           \* history: what the last acquire or release of a task did
    jobObjs,          \* the job objects scheduleJob has created, by allocation number
    jobs,             \* BackgroundJobScheduler.jobs: job id -> job object (0: no entry)
    jobOrder,         \* the insertion order of the keys of BackgroundJobScheduler.jobs
    currentlyRunning, \* BackgroundJobScheduler.currentlyRunning: a set of job ids
    maxConcurrentJobs, \* BackgroundJobScheduler.maxConcurrentJobs
    abandoned,        \* job objects whose function lost the race to the timer and still runs
    lastTick,         \* history: the ready jobs and the dispatches of the last processJobQueue
    lastFailure,      \* history: the last rejection of a job function, and when
    cache,            \* CacheManager.cache: key -> entry
    lastSet,          \* history: per key, when set() stored it last and with which ttl
    lastGet,          \* history: the last get() and what it returned
    spatialIndex,     \* OptimizedDriverSearch.spatialIndex: grid key -> driver list
    lastUpsert,       \* history: the drivers of the last updateSpatialIndex, and when
    lastNear,         \* history: the last getDriversNearLocation and what it returned
    search,           \* per order: the position of its getAvailableDriversOptimized call
    optimizedDrivers, \* the entries of CacheManager.cache under optimized_drivers_*
    lastSearch,       \* history: the getAvailableDriversOptimized call that returned last
    accessPatterns,   \* AdvancedCacheManager.accessPatterns: key -> access times
    hitRates,         \* AdvancedCacheManager.hitRates: key -> {hits, total}
    smart,            \* per caller: the position of its getWithSmartTTL call
    lastDone,         \* history: per key, the getWithSmartTTL call that returned last
    smartCalls,       \* history: the number of getWithSmartTTL calls made
    dispatch,         \* per request: the position of its dispatchOrder call
    matched,          \* history: the last findOptimalDriver call and what it returned
    lastScore,        \* history: the last calculateDriverScore call and what it returned
    suspiciousPatterns, \* EnhancedSecurityMonitoring.suspiciousPatterns: user -> activities
    securityMetrics,  \* EnhancedSecurityMonitoring.securityMetrics
    userDocs,         \* the documents of the collection users: the fields the monitor writes
    securityIncidents, \* the documents added to the collection security_incidents
    detect,           \* per caller: the position of its detectAdvancedThreats call
    lastDetect,       \* history: the detectAdvancedThreats call that returned last
    lastTtl,          \* history: the last calculateOptimalTTL call and what it returned
    metrics,          \* PerformanceMonitor.metrics: function name -> metric series
    lastAppend,       \* history: the last append to a bounded log, and the log before it
    track,            \* per caller: the position of its trackFunction call
    alerts,           \* PerformanceMonitor.alerts
    lastTrack         \* history: the trackFunction call that settled last

breakerVars == <<circuitBreakers, cfg, run, failStreak, lastStep>>

resourceVars == <<resourceUsage, task, lastHeapSample, lastOp>>

schedulerVars == <<jobObjs, jobs, jobOrder, currentlyRunning, maxConcurrentJobs,
                   abandoned, lastTick, lastFailure>>

cacheVars == <<cache, lastSet, lastGet>>

searchVars == <<search, optimizedDrivers, lastSearch>>

spatialVars == <<spatialIndex, lastUpsert, lastNear, searchVars>>

adaptiveVars == <<accessPatterns, hitRates, smart, lastDone, smartCalls>>

dispatchVars == <<dispatch>>

\* the stateless helpers and the meters: matching, threat monitoring, metric series
matchingVars == <<matched, lastScore>>

threatVars == <<suspiciousPatterns, securityMetrics, userDocs, securityIncidents, detect,
                lastDetect>>

ttlVars == <<lastTtl>>

meterVars == <<metrics, lastAppend>>

monitorVars == <<track, alerts, lastTrack>>

utilityVars == <<matchingVars, threatVars, ttlVars, meterVars, monitorVars>>

vars == <<now, breakerVars, resourceVars, schedulerVars, cacheVars, spatialVars,
          adaptiveVars, dispatchVars, utilityVars>>

(***************************************************************************)
(* Bounds of the model.                                                    *)
(***************************************************************************)
MaxTime == 200            \* the breaker model's clock stops once it has reached MaxTime ms
MaxMaxFailures == 3       \* options.maxFailures ranges over 1..MaxMaxFailures
MaxRetryAttempts == 2     \* options.retryAttempts ranges over 1..MaxRetryAttempts
MaxJobObjects == 2        \* scheduleJob is called at most this many times
MaxSchedTime == 60000     \* the scheduler model's clock stops once it has reached this, ms
MaxCacheTime == 420000    \* the cache model's clock stops once it has reached this, ms
MaxSpatialTime == 1200000 \* the index model's clock stops once it has reached this, ms
MaxDriverList == 2        \* updateSpatialIndex is passed at most this many drivers
MaxSearchTime == 120000   \* the driver search model's clock stops once it has reached this, ms
MaxSmartCalls == 4        \* getWithSmartTTL is called at most this many times
MaxSmartTime == 120000    \* the adaptive cache model's clock stops once it has reached this
MaxCandidates == 3        \* findOptimalDriver is passed at most this many drivers
MaxDetectCalls == 2       \* detectAdvancedThreats is called at most this many times
MaxTtlBase == 2           \* calculateOptimalTTL is passed every baseMinutes up to this
MaxLogAppends == 3        \* the log model appends at most this many entries
MaxMonitorTime == 6000    \* the monitor model's clock stops once it has reached this, ms
MaxTrackCalls == 2        \* trackFunction is called at most this many times
MaxSystemTicks == 2       \* the clock of the system jobs advances this many times

Keys == {"dispatch_vendorA"}
Callers == {"c1", "c2"}
ResetTimeouts == {50, 100}        \* options.resetTimeoutMs
RetryDelays == {50}               \* options.retryDelayMs

(***************************************************************************)
(* Circuit breaker: 028-error-handler-circuit-breaker.js                   *)
(***************************************************************************)
\* circuitBreakers.get(key) === undefined
NoBreaker == [state |-> "NONE", failures |-> 0, resetTime |-> 0]

\* isCircuitOpen: the value returned and the breaker it leaves.
isCircuitOpen_NoTransition(b, t) ==
    IF b.state = "OPEN"
    THEN IF t > b.resetTime THEN [ret |-> FALSE, breaker |-> b]
                            ELSE [ret |-> TRUE, breaker |-> b]
    ELSE [ret |-> FALSE, breaker |-> b]

isCircuitOpen_StrictWindow(b, t) ==
    IF b.state = "OPEN"
    THEN IF t >= b.resetTime
         THEN [ret |-> FALSE, breaker |-> [b EXCEPT !.state = "HALF_OPEN"]]
         ELSE [ret |-> TRUE, breaker |-> b]
    ELSE [ret |-> FALSE, breaker |-> b]

isCircuitOpen(b, t) ==
    IF b.state = "NONE"
    THEN [ret |-> FALSE, breaker |-> b]
    ELSE IF b.state = "OPEN"
         THEN IF t > b.resetTime
              THEN [ret |-> FALSE, breaker |-> [b EXCEPT !.state = "HALF_OPEN"]]
              ELSE [ret |-> TRUE, breaker |-> b]
         ELSE [ret |-> FALSE, breaker |-> b]

recordSuccess_KeepFailures(b) ==
    IF b.state = "HALF_OPEN"
    THEN [b EXCEPT !.state = "CLOSED", !.resetTime = 0]
    ELSE b

\* a recordSuccess that closes the breaker whatever its state
recordSuccess_ClosesOpen(b) ==
    IF b.state = "NONE"
    THEN b
    ELSE [state |-> "CLOSED", failures |-> 0, resetTime |-> 0]

recordSuccess(b) ==
    IF b.state = "NONE"
    THEN b
    ELSE IF b.state = "HALF_OPEN"
         THEN [state |-> "CLOSED", failures |-> 0, resetTime |-> 0]
         ELSE IF b.state = "CLOSED"
              THEN [b EXCEPT !.failures = 0]
              ELSE b

\* a recordFailure that counts a failure and moves resetTime on an OPEN breaker too
recordFailureOn_Reopen(b, maxFailures, resetTimeoutMs, t) ==
    LET f == b.failures + 1
    IN  IF f >= maxFailures \/ b.state # "CLOSED"
        THEN [state |-> "OPEN", failures |-> f, resetTime |-> t + resetTimeoutMs]
        ELSE [b EXCEPT !.failures = f]

\* recordFailure after the breaker exists (lines 99-128).
recordFailureOn(b, maxFailures, resetTimeoutMs, t) ==
    IF b.state = "CLOSED" \/ b.state = "HALF_OPEN"
    THEN LET f == b.failures + 1
         IN  IF f >= maxFailures /\ b.state = "CLOSED"
             THEN [state |-> "OPEN", failures |-> f, resetTime |-> t + resetTimeoutMs]
             ELSE IF b.state = "HALF_OPEN"
                  THEN [state |-> "OPEN", failures |-> f, resetTime |-> t + resetTimeoutMs]
                  ELSE [b EXCEPT !.failures = f]
    ELSE b

recordFailure_LateOpen(b, maxFailures, resetTimeoutMs, t) ==
    LET b0 == IF b.state = "NONE"
              THEN [state |-> "CLOSED", failures |-> 0, resetTime |-> 0]
              ELSE b
    IN  IF b0.state = "CLOSED" /\ b0.failures + 1 = maxFailures
        THEN [b0 EXCEPT !.failures = b0.failures + 1]
        ELSE recordFailureOn(b0, maxFailures, resetTimeoutMs, t)

recordFailure(b, maxFailures, resetTimeoutMs, t) ==
    LET b0 == IF b.state = "NONE"
              THEN [state |-> "CLOSED", failures |-> 0, resetTime |-> 0]
              ELSE b
    IN  recordFailureOn(b0, maxFailures, resetTimeoutMs, t)

\* a delay that doubles with every attempt
delayUntil_Doubling(t, retryDelayMs, attempt) ==
    t + retryDelayMs * (IF attempt = 1 THEN 2 ELSE 4)

\* delay(retryDelayMs * attempt): the instant the timer may fire
delayUntil(t, retryDelayMs, attempt) == t + retryDelayMs * attempt

IdleRun == [pc |-> "idle", key |-> "dispatch_vendorA", attempt |-> 0, calls |-> 0,
            wakeAt |-> 0, result |-> "none", entryReset |-> -1, overlapped |-> FALSE,
            logged |-> 0]

InProgress(c) == run[c].pc \in {"attempt", "running", "sleep"}

OthersOn(c, k) == {d \in Callers \ {c} : InProgress(d) /\ run[d].key = k}

NoStep == [kind |-> "none", caller |-> "c1", key |-> "dispatch_vendorA",
           before |-> NoBreaker, at |-> 0, error |-> "none"]

\* the errors the wrapped operation rejects with: the code of an HttpsError, or
\* 'unavailable' for a transient failure
OperationErrors == {"permission-denied", "not-found", "unavailable"}

nonBreakerVars == <<resourceVars, schedulerVars, cacheVars, spatialVars, adaptiveVars,
                   dispatchVars, utilityVars>>

\* the option defaults of handleAsyncWithCircuitBreaker
DefaultOptions == [maxFailures |-> 5, resetTimeoutMs |-> 30000,
                   retryAttempts |-> 3, retryDelayMs |-> 1000]

\* the breaker table of a process in which no run call is made
QuietBreaker ==
    /\ circuitBreakers = [k \in Keys |-> NoBreaker]
    /\ cfg = DefaultOptions
    /\ run = [c \in Callers |-> IdleRun]
    /\ failStreak = [k \in Keys |-> 0]
    /\ lastStep = NoStep

InitBreaker ==
    /\ circuitBreakers = [k \in Keys |-> NoBreaker]
    /\ cfg \in [maxFailures : 1..MaxMaxFailures, resetTimeoutMs : ResetTimeouts,
                retryAttempts : 1..MaxRetryAttempts, retryDelayMs : RetryDelays]
    /\ run = [c \in Callers |-> IdleRun]
    /\ failStreak = [k \in Keys |-> 0]
    /\ lastStep = NoStep

\* A completed run updates the history of consecutive failed runs on its key.
StreakAfter(c, k, failed) ==
    IF run[c].overlapped \/ OthersOn(c, k) # {}
    THEN [failStreak EXCEPT ![k] = 0]
    ELSE IF failed
         THEN [failStreak EXCEPT ![k] = IF @ < 2 THEN @ + 1 ELSE 2]
         ELSE [failStreak EXCEPT ![k] = 0]

\* handleAsyncWithCircuitBreaker, lines 11-23: the call up to the first await.
RunCall(c, k) ==
    /\ run[c].pc \in {"idle", "done"}
    /\ LET chk == isCircuitOpen(circuitBreakers[k], now)
           b   == circuitBreakers[k]
           others == OthersOn(c, k)
       IN  /\ circuitBreakers' = [circuitBreakers EXCEPT ![k] = chk.breaker]
           /\ lastStep' = [kind |-> "call", caller |-> c, key |-> k, before |-> b, at |-> now,
                           error |-> "none"]
           /\ IF chk.ret
              THEN /\ run' = [d \in Callers |->
                               IF d = c
                               THEN [IdleRun EXCEPT !.pc = "done", !.key = k,
                                                    !.result = "circuit_open",
                                                    !.overlapped = (others # {})]
                               ELSE IF d \in others
                                    THEN [run[d] EXCEPT !.overlapped = TRUE]
                                    ELSE run[d]]
                   /\ failStreak' = IF others # {}
                                    THEN [failStreak EXCEPT ![k] = 0]
                                    ELSE [failStreak EXCEPT ![k] = IF @ < 2 THEN @ + 1 ELSE 2]
              ELSE /\ run' = [d \in Callers |->
                               IF d = c
                               THEN [IdleRun EXCEPT !.pc = "attempt", !.key = k,
                                        !.attempt = 1,
                                        !.entryReset =
                                            IF b.state = "OPEN" THEN b.resetTime ELSE -1,
                                        !.overlapped = (others # {})]
                               ELSE IF d \in others
                                    THEN [run[d] EXCEPT !.overlapped = TRUE]
                                    ELSE run[d]]
                   /\ UNCHANGED failStreak
    /\ UNCHANGED <<now, cfg>>
    /\ UNCHANGED nonBreakerVars

\* line 29: PerformanceMonitor.trackFunction(operationName, operation) invokes the operation.
InvokeOperation(c) ==
    /\ run[c].pc = "attempt"
    /\ run' = [run EXCEPT ![c].pc = "running", ![c].calls = @ + 1]
    /\ lastStep' = [kind |-> "invoke", caller |-> c, key |-> run[c].key,
                    before |-> circuitBreakers[run[c].key], at |-> now, error |-> "none"]
    /\ UNCHANGED <<now, circuitBreakers, cfg, failStreak>>
    /\ UNCHANGED nonBreakerVars

\* lines 29-34: the attempt resolves, recordSuccess, return result.
AttemptSucceeds(c) ==
    /\ run[c].pc = "running"
    /\ LET k == run[c].key
       IN  /\ circuitBreakers' = [circuitBreakers EXCEPT ![k] = recordSuccess(@)]
           /\ lastStep' = [kind |-> "success", caller |-> c, key |-> k,
                           before |-> circuitBreakers[k], at |-> now, error |-> "none"]
           /\ run' = [run EXCEPT ![c].pc = "done", ![c].result = "ok"]
           /\ failStreak' = StreakAfter(c, k, FALSE)
    /\ UNCHANGED <<now, cfg>>
    /\ UNCHANGED nonBreakerVars

\* lines 35-42 and 45-53: the attempt rejects with `error`, recordFailure, then
\* either the delay before the next attempt or, after the last attempt, the critical
\* log and the throw; the catch block does not look at the error.
AttemptFails(c, error) ==
    /\ run[c].pc = "running"
    /\ LET k == run[c].key
       IN  /\ circuitBreakers' = [circuitBreakers EXCEPT ![k] =
                   recordFailure(@, cfg.maxFailures, cfg.resetTimeoutMs, now)]
           /\ lastStep' = [kind |-> "failure", caller |-> c, key |-> k,
                           before |-> circuitBreakers[k], at |-> now, error |-> error]
           /\ IF run[c].attempt < cfg.retryAttempts
              THEN /\ run' = [run EXCEPT ![c].pc = "sleep",
                                  ![c].wakeAt = delayUntil(now, cfg.retryDelayMs, run[c].attempt)]
                   /\ UNCHANGED failStreak
              ELSE /\ run' = [run EXCEPT ![c].pc = "done", ![c].result = "error",
                                              ![c].logged = @ + 1]
                   /\ failStreak' = StreakAfter(c, k, TRUE)
    /\ UNCHANGED <<now, cfg>>
    /\ UNCHANGED nonBreakerVars

\* line 40 resolves: the loop's next iteration (attempt++), line 27.
WakeUp(c) ==
    /\ run[c].pc = "sleep"
    /\ now >= run[c].wakeAt
    /\ run' = [run EXCEPT ![c].pc = "attempt", ![c].attempt = @ + 1]
    /\ lastStep' = NoStep
    /\ UNCHANGED <<now, circuitBreakers, cfg, failStreak>>
    /\ UNCHANGED nonBreakerVars

\* the clock: Date.now() advances (in steps of 50 ms)
TickBreaker ==
    /\ now < MaxTime
    /\ now' = now + 50
    /\ lastStep' = NoStep
    /\ UNCHANGED <<circuitBreakers, cfg, run, failStreak>>
    /\ UNCHANGED nonBreakerVars

NextBreaker ==
    \/ \E c \in Callers, k \in Keys : RunCall(c, k)
    \/ \E c \in Callers : InvokeOperation(c)
    \/ \E c \in Callers : AttemptSucceeds(c)
    \/ \E c \in Callers, error \in OperationErrors : AttemptFails(c, error)
    \/ \E c \in Callers : WakeUp(c)
    \/ TickBreaker

(***************************************************************************)
(* Resource manager: 024-smart-resource-management.js                      *)
(***************************************************************************)
ResourceTypes == {"activeDispatch", "memoryUsage", "cpuUsage", "databaseConnections"}

resourceLimits == [maxConcurrentDispatch |-> 100,
                   maxMemoryUsage |-> 512 * 1024 * 1024,
                   maxCPUUsage |-> 80,
                   maxDatabaseConnections |-> 50]

\* resourceType.charAt(0).toUpperCase() + resourceType.slice(1)
UpperFirst == [activeDispatch |-> "ActiveDispatch", memoryUsage |-> "MemoryUsage",
               cpuUsage |-> "CpuUsage", databaseConnections |-> "DatabaseConnections"]

limitKey(resourceType) == "max" \o UpperFirst[resourceType]

\* typeof this.resourceLimits[limitKey] === 'undefined'
limitUndefined(resourceType) == limitKey(resourceType) \notin DOMAIN resourceLimits

limitOf(resourceType) == resourceLimits[limitKey(resourceType)]

\* line 34: currentUsage + amount > limit
exceedsLimit(resourceType, amount) ==
    resourceUsage[resourceType] + amount > limitOf(resourceType)

\* releaseResource: Math.max(0, usage - amount)
releaseResource(usage, resourceType, amount) ==
    [usage EXCEPT ![resourceType] = IF @ - amount > 0 THEN @ - amount ELSE 0]

RECURSIVE releaseAll(_, _)
\* resources.forEach(resource => resource.release())
releaseAll(usage, held) ==
    IF held = << >>
    THEN usage
    ELSE releaseAll(releaseResource(usage, Head(held).resourceType, Head(held).amount),
                    Tail(held))

RECURSIVE releaseTrace(_)
\* the resource types in the order in which forEach calls release() (line 154)
releaseTrace(held) ==
    IF held = << >>
    THEN << >>
    ELSE <<Head(held).resourceType>> \o releaseTrace(Tail(held))

Tasks == {"t1", "t2"}

Req(t, n) == [resourceType |-> t, amount |-> n]

\* the resourceRequirements objects the tasks pass, entries in declaration order
Requirements ==
    { <<Req("databaseConnections", 30)>>,
      <<Req("memoryUsage", 1), Req("databaseConnections", 30)>>,
      <<Req("databaseConnections", 1), Req("activeDispatch", 1)>>,
      <<Req("cpuUsage", 1)>> }

\* process.memoryUsage().heapUsed as the sampler may read it
HeapSamples == {256 * 1024 * 1024, 512 * 1024 * 1024, 512 * 1024 * 1024 + 1}

\* Math.floor(Math.random() * n): its least and its greatest value
RandomFloor(n) == {0, n - 1}

IdleTask == [pc |-> "idle", reqs |-> << >>, idx |-> 0, held |-> << >>, outcome |-> "none"]

\* no acquire or release recorded
NoOp == [kind |-> "none", task |-> "-", req |-> Req("-", 0), held |-> << >>,
         before |-> [r \in ResourceTypes |-> 0], after |-> [r \in ResourceTypes |-> 0],
         result |-> "none", released |-> << >>]

\* the record of an acquireResource step of task t for requirement req
AcquireOp(t, req, after, result) ==
    [kind |-> "acquire", task |-> t, req |-> req, held |-> task[t].held,
     before |-> resourceUsage, after |-> after, result |-> result,
     released |-> IF result = "undefined_type" THEN releaseTrace(task[t].held) ELSE << >>]

\* the record of the finally block of task t
FinallyOp(t, after, result) ==
    [kind |-> "finally", task |-> t, req |-> Req("-", 0), held |-> task[t].held,
     before |-> resourceUsage, after |-> after, result |-> result,
     released |-> releaseTrace(task[t].held)]

QuietResource ==
    /\ resourceUsage = [r \in ResourceTypes |-> 0]
    /\ task = [t \in Tasks |-> IdleTask]
    /\ lastHeapSample = 0
    /\ lastOp = NoOp

nonResourceVars == <<now, breakerVars, schedulerVars, cacheVars, spatialVars, adaptiveVars,
                   dispatchVars, utilityVars>>

\* executeWithResourceManagement is called (line 137-140)
StartWithResources(t, reqs) ==
    /\ task[t].pc \in {"idle", "done"}
    /\ task' = [task EXCEPT ![t] = [IdleTask EXCEPT !.pc = "acquiring", !.reqs = reqs,
                                                    !.idx = 1]]
    /\ lastOp' = NoOp
    /\ UNCHANGED <<resourceUsage, lastHeapSample>>
    /\ UNCHANGED nonResourceVars

\* acquireResource grants (lines 24-47) and the handle is pushed (line 143); after the
\* last requirement the operation is invoked (line 146)
AcquireGranted(t) ==
    /\ task[t].pc = "acquiring"
    /\ LET r == task[t].reqs[task[t].idx]
       IN  /\ ~limitUndefined(r.resourceType)
           /\ ~exceedsLimit(r.resourceType, r.amount)
           /\ resourceUsage' = [resourceUsage EXCEPT ![r.resourceType] = @ + r.amount]
           /\ task' = [task EXCEPT ![t].held = Append(@, r),
                                   ![t].idx = @ + 1,
                                   ![t].pc = IF task[t].idx = Len(task[t].reqs)
                                             THEN "running" ELSE "acquiring"]
           /\ lastOp' = AcquireOp(t, r, resourceUsage', "granted")
    /\ UNCHANGED lastHeapSample
    /\ UNCHANGED nonResourceVars

\* acquireResource throws 'Undefined resource type' (lines 28-30); the finally block
\* of executeWithResourceManagement releases what was acquired (lines 150-155)
AcquireUndefined(t) ==
    /\ task[t].pc = "acquiring"
    /\ limitUndefined(task[t].reqs[task[t].idx].resourceType)
    /\ resourceUsage' = releaseAll(resourceUsage, task[t].held)
    /\ task' = [task EXCEPT ![t].pc = "done", ![t].held = << >>,
                            ![t].outcome = "undefined_type"]
    /\ lastOp' = AcquireOp(t, task[t].reqs[task[t].idx], resourceUsage', "undefined_type")
    /\ UNCHANGED lastHeapSample
    /\ UNCHANGED nonResourceVars

\* acquireResource finds the limit exceeded and awaits handleResourceExhaustion
\* (lines 34-35)
AcquireExhausted(t) ==
    /\ task[t].pc = "acquiring"
    /\ LET r == task[t].reqs[task[t].idx]
       IN  /\ ~limitUndefined(r.resourceType)
           /\ exceedsLimit(r.resourceType, r.amount)
           /\ lastOp' = AcquireOp(t, r, resourceUsage, "over_limit")
    /\ task' = [task EXCEPT ![t].pc = "exhausted"]
    /\ UNCHANGED <<resourceUsage, lastHeapSample>>
    /\ UNCHANGED nonResourceVars

\* handleResourceExhaustion settles (lines 53-73): when it resolved acquireResource
\* throws resource-exhausted (lines 36-37), when one of its awaited writes rejected
\* that rejection leaves acquireResource; the finally block releases what was acquired
ExhaustionThrown(t, alertOk) ==
    /\ task[t].pc = "exhausted"
    /\ resourceUsage' = releaseAll(resourceUsage, task[t].held)
    /\ task' = [task EXCEPT ![t].pc = "done", ![t].held = << >>,
                            ![t].outcome = IF alertOk THEN "resource_exhausted"
                                                      ELSE "alert_error"]
    /\ lastOp' = FinallyOp(t, resourceUsage',
                           IF alertOk THEN "resource_exhausted" ELSE "alert_error")
    /\ UNCHANGED lastHeapSample
    /\ UNCHANGED nonResourceVars

\* the operation returns or throws (lines 146-152); the finally block releases
OperationEnds(t, ok) ==
    /\ task[t].pc = "running"
    /\ resourceUsage' = releaseAll(resourceUsage, task[t].held)
    /\ task' = [task EXCEPT ![t].pc = "done", ![t].held = << >>,
                            ![t].outcome = IF ok THEN "ok" ELSE "error"]
    /\ lastOp' = FinallyOp(t, resourceUsage', IF ok THEN "ok" ELSE "error")
    /\ UNCHANGED lastHeapSample
    /\ UNCHANGED nonResourceVars

\* monitorSystemResources (lines 87-99): the sampler overwrites three counters
monitorSystemResources(heapUsed, cpuRandom, dbRandom) ==
    /\ resourceUsage' = [resourceUsage EXCEPT !["memoryUsage"] = heapUsed,
                                              !["cpuUsage"] = cpuRandom + 30,
                                              !["databaseConnections"] = dbRandom + 10]
    /\ lastHeapSample' = heapUsed
    /\ lastOp' = NoOp
    /\ UNCHANGED task
    /\ UNCHANGED nonResourceVars

NextResource ==
    \/ \E t \in Tasks, reqs \in Requirements : StartWithResources(t, reqs)
    \/ \E t \in Tasks : AcquireGranted(t)
    \/ \E t \in Tasks : AcquireUndefined(t)
    \/ \E t \in Tasks : AcquireExhausted(t)
    \/ \E t \in Tasks, alertOk \in BOOLEAN : ExhaustionThrown(t, alertOk)
    \/ \E t \in Tasks, ok \in BOOLEAN : OperationEnds(t, ok)
    \/ \E h \in HeapSamples, c \in RandomFloor(50), d \in RandomFloor(20) :
          monitorSystemResources(h, c, d)

(***************************************************************************)
(* Background job scheduler: unnamed/part_008 (030-background-job-        *)
(* scheduler.js)                                                           *)
(***************************************************************************)
JobIds == {"jobA", "jobB"}
ObjIds == 1..MaxJobObjects

\* an optional argument: << >> when it is not given, <<v>> when it is v
NotGiven == << >>
Given(v) == <<v>>

\* parseInterval: the interval table and its fallback
intervals == [every_second |-> 1000, every_5_seconds |-> 5 * 1000,
              every_10_seconds |-> 10 * 1000, every_30_seconds |-> 30 * 1000,
              every_minute |-> 60 * 1000, every_5_minutes |-> 5 * 60 * 1000,
              every_10_minutes |-> 10 * 60 * 1000, every_30_minutes |-> 30 * 60 * 1000,
              every_hour |-> 60 * 60 * 1000, every_day |-> 24 * 60 * 60 * 1000]

parseInterval(scheduleString) ==
    IF scheduleString \in DOMAIN intervals THEN intervals[scheduleString] ELSE 60 * 1000

\* a schedule argument: a number (epoch ms) or a string
NumberSchedule(at) == [type |-> "number", at |-> at, token |-> "-"]
StringSchedule(token) == [type |-> "string", at |-> 0, token |-> token]

\* calculateNextRun(schedule) at Date.now() = t (the strings used all start with 'every ')
calculateNextRun(schedule, t) ==
    IF schedule.type = "number"
    THEN IF schedule.at > t THEN schedule.at ELSE t
    ELSE t + parseInterval(schedule.token)

\* { maxRetries: options.maxRetries || 3, ...options }: a given value, 0 included,
\* overrides the default
optionMaxRetries(given) == IF given = NotGiven THEN 3 ELSE given[1]

priorityOrder == [high |-> 0, normal |-> 1, low |-> 2]

FreeObj == [id |-> "-", schedule |-> NumberSchedule(0), priority |-> "normal",
            maxRetries |-> 0, timeout |-> 0, nextRun |-> 0, retryCount |-> 0,
            status |-> "free", timerAt |-> 0, exec |-> "none"]

\* a job object nothing refers to any more (not in the table, no executeJob on it)
DeadObj == [FreeObj EXCEPT !.status = "dead"]

\* scheduleJob's new job object (lines 23-40)
newJob(jobId, schedule, priority, maxRetries, timeout, t) ==
    [id |-> jobId, schedule |-> schedule, priority |-> priority,
     maxRetries |-> optionMaxRetries(maxRetries), timeout |-> timeout,
     nextRun |-> calculateNextRun(schedule, t), retryCount |-> 0,
     status |-> "scheduled", timerAt |-> 0, exec |-> "none"]

\* no processJobQueue recorded
NoTick == [done |-> FALSE, ready |-> {}, started |-> << >>]

\* no rejection of a job function recorded
NoFailure == [done |-> FALSE, obj |-> 0, at |-> 0, failures |-> 0]

\* what the history keeps of a job object at a processJobQueue
TickEntry(job) == [id |-> job.id, priority |-> job.priority, nextRun |-> job.nextRun]

QuietScheduler ==
    /\ jobObjs = [o \in ObjIds |-> FreeObj]
    /\ jobs = [j \in JobIds |-> 0]
    /\ jobOrder = << >>
    /\ currentlyRunning = {}
    /\ maxConcurrentJobs = 5
    /\ abandoned = {}
    /\ lastTick = NoTick
    /\ lastFailure = NoFailure

InitScheduler ==
    /\ jobObjs = [o \in ObjIds |-> FreeObj]
    /\ jobs = [j \in JobIds |-> 0]
    /\ jobOrder = << >>
    /\ currentlyRunning = {}
    /\ maxConcurrentJobs \in {1, 5}
    /\ abandoned = {}
    /\ lastTick = NoTick
    /\ lastFailure = NoFailure

nonSchedulerVars == <<breakerVars, resourceVars, cacheVars, spatialVars, adaptiveVars,
                   dispatchVars, utilityVars>>

SeqWithout(seq, x) == SelectSeq(seq, LAMBDA y : y # x)

\* the schedule, priority, maxRetries and timeout arguments the callers pass
ScheduleArgs == {NumberSchedule(0), StringSchedule("every_30_seconds")}
PriorityArgs == {"high", "normal", "low"}
MaxRetriesArgs == {NotGiven, Given(0), Given(2)}
TimeoutArgs == {30000}

FreeObjIds == {o \in ObjIds : jobObjs[o].status = "free"}

\* scheduleJob (lines 22-44): this.jobs.set(jobId, job)
scheduleJob(jobId, schedule, priority, maxRetries, timeout) ==
    /\ FreeObjIds # {}
    /\ LET o == CHOOSE x \in FreeObjIds : \A y \in FreeObjIds : x <= y
           old == jobs[jobId]
       IN  /\ jobObjs' = [x \in DOMAIN jobObjs |->
                              IF x = o
                              THEN newJob(jobId, schedule, priority, maxRetries, timeout, now)
                              ELSE IF x = old /\ jobObjs[x].exec = "none"
                                   THEN DeadObj
                                   ELSE jobObjs[x]]
           /\ jobs' = [jobs EXCEPT ![jobId] = o]
           /\ jobOrder' = IF jobs[jobId] # 0 THEN jobOrder ELSE Append(jobOrder, jobId)
    /\ lastTick' = NoTick
    /\ lastFailure' = NoFailure
    /\ UNCHANGED <<now, currentlyRunning, maxConcurrentJobs, abandoned>>
    /\ UNCHANGED nonSchedulerVars

\* the test of getReadyJobs (lines 120-122)
isReady(job, t) ==
    /\ job.nextRun <= t
    /\ (job.status = "scheduled"
        \/ (job.status = "failed" /\ job.retryCount < job.maxRetries))
    /\ job.id \notin currentlyRunning

\* a comparator that looks at nextRun only
compareJobs_NextRunOnly(a, b) == a.nextRun - b.nextRun

\* the comparator of getReadyJobs (lines 127-132): negative, zero or positive
compareJobs(a, b) ==
    LET priorityDiff == priorityOrder[a.priority] - priorityOrder[b.priority]
    IN  IF priorityDiff # 0 THEN priorityDiff ELSE a.nextRun - b.nextRun

RECURSIVE insertSorted(_, _)
\* stable insertion: o goes behind every element that does not compare greater
insertSorted(o, sorted) ==
    IF sorted = << >>
    THEN <<o>>
    ELSE IF compareJobs(jobObjs[Head(sorted)], jobObjs[o]) <= 0
         THEN <<Head(sorted)>> \o insertSorted(o, Tail(sorted))
         ELSE <<o>> \o sorted

RECURSIVE sortJobs(_)
\* Array.prototype.sort with the comparator (stable)
sortJobs(list) ==
    IF list = << >>
    THEN << >>
    ELSE insertSorted(list[Len(list)], sortJobs(SubSeq(list, 1, Len(list) - 1)))

\* getReadyJobs (lines 115-133): the ready job objects, sorted
getReadyJobs(t) ==
    LET inMapOrder == [i \in 1..Len(jobOrder) |-> jobs[jobOrder[i]]]
    IN  sortJobs(SelectSeq(inMapOrder, LAMBDA o : isReady(jobObjs[o], t)))

\* a loop that dispatches every ready job
dispatched_NoLimit(t) == getReadyJobs(t)

\* the jobs one processJobQueue call dispatches: the loop breaks when
\* currentlyRunning.size >= maxConcurrentJobs (lines 103-109)
dispatched(t) ==
    LET ready == getReadyJobs(t)
        room  == maxConcurrentJobs - Cardinality(currentlyRunning)
        n     == IF room <= 0 THEN 0 ELSE IF room < Len(ready) THEN room ELSE Len(ready)
    IN  SubSeq(ready, 1, n)

Range(seq) == {seq[i] : i \in 1..Len(seq)}

\* processJobQueue (lines 95-113) with the synchronous head of every executeJob it
\* starts (lines 135-151): the job function is invoked and raced against the timer
processJobQueue ==
    LET started == Range(dispatched(now))
    IN  /\ started # {}
        /\ lastTick' = [done |-> TRUE,
                        ready |-> {TickEntry(jobObjs[jobs[j]]) :
                                      j \in {x \in DOMAIN jobs : /\ jobs[x] # 0
                                                            /\ isReady(jobObjs[jobs[x]], now)}},
                        started |-> [i \in 1..Len(dispatched(now)) |->
                                        TickEntry(jobObjs[dispatched(now)[i]])]]
        /\ jobObjs' = [o \in DOMAIN jobObjs |->
                          IF o \in started
                          THEN [jobObjs[o] EXCEPT !.status = "running",
                                                  !.timerAt = now + jobObjs[o].timeout,
                                                  !.exec = "running"]
                          ELSE jobObjs[o]]
        /\ currentlyRunning' = currentlyRunning \cup {jobObjs[o].id : o \in started}
        /\ lastFailure' = NoFailure
        /\ UNCHANGED <<now, jobs, jobOrder, maxConcurrentJobs, abandoned>>
        /\ UNCHANGED nonSchedulerVars

\* handleJobSuccess (lines 170-184)
handleJobSuccess(job, t) ==
    IF job.schedule.type # "number"
    THEN [job EXCEPT !.status = "scheduled", !.retryCount = 0,
                     !.nextRun = calculateNextRun(job.schedule, t)]
    ELSE [job EXCEPT !.status = "completed", !.retryCount = 0]

\* handleJobError up to its await (lines 186-198)
handleJobError(job, t) ==
    LET n == job.retryCount + 1
    IN  IF n < job.maxRetries
        THEN [job EXCEPT !.status = "scheduled", !.retryCount = n,
                         !.nextRun = t + n * 30000]
        ELSE [job EXCEPT !.status = "failed", !.retryCount = n]

\* handleJobTimeout (lines 210-231)
handleJobTimeout(job, t) ==
    LET n == job.retryCount + 1
    IN  IF n < job.maxRetries
        THEN [job EXCEPT !.status = "scheduled", !.retryCount = n,
                         !.nextRun = t + n * 60000]
        ELSE [job EXCEPT !.status = "timeout", !.retryCount = n]

\* the condition of the finally block (line 164)
removesOneTimeJob(job) ==
    /\ job.schedule.type = "number"
    /\ (job.status = "completed"
        \/ (job.status = "failed" /\ job.retryCount >= job.maxRetries))

\* the finally block of executeJob (lines 161-167) for job object o, whose fields
\* are now those of `after`: currentlyRunning.delete, and removeJob for a one-time
\* job (removeJob deletes whatever object is stored under the id)
FinallyOf(o, after) ==
    /\ currentlyRunning' = currentlyRunning \ {after.id}
    /\ IF removesOneTimeJob(after)
       THEN /\ jobs' = [jobs EXCEPT ![after.id] = 0]
            /\ jobOrder' = SeqWithout(jobOrder, after.id)
       ELSE UNCHANGED <<jobs, jobOrder>>
    /\ jobObjs' = [x \in DOMAIN jobObjs |->
                      IF x = o
                      THEN IF jobs'[after.id] = o
                           THEN [after EXCEPT !.exec = "none", !.timerAt = 0]
                                                 ELSE DeadObj
                      ELSE IF jobs[after.id] = x /\ jobs'[after.id] = 0
                                /\ jobObjs[x].exec = "none"
                           THEN DeadObj
                           ELSE jobObjs[x]]

\* the job function resolves before the timer: handleJobSuccess, finally
JobSucceeds(o) ==
    /\ jobObjs[o].exec = "running"
    /\ FinallyOf(o, handleJobSuccess(jobObjs[o], now))
    /\ lastTick' = NoTick
    /\ lastFailure' = NoFailure
    /\ UNCHANGED <<now, maxConcurrentJobs, abandoned>>
    /\ UNCHANGED nonSchedulerVars

\* the job function rejects before the timer: handleJobError; with retries left it
\* returns at once and the finally block runs, otherwise it awaits the critical log
JobThrows(o) ==
    /\ jobObjs[o].exec = "running"
    /\ LET after == handleJobError(jobObjs[o], now)
       IN  IF after.status = "scheduled"
           THEN FinallyOf(o, after)
           ELSE /\ jobObjs' = [jobObjs EXCEPT ![o] = [after EXCEPT !.exec = "logging"]]
                /\ UNCHANGED <<jobs, jobOrder, currentlyRunning>>
    /\ lastTick' = NoTick
    /\ lastFailure' = [done |-> TRUE, obj |-> o, at |-> now,
                       failures |-> jobObjs[o].retryCount + 1]
    /\ UNCHANGED <<now, maxConcurrentJobs, abandoned>>
    /\ UNCHANGED nonSchedulerVars

\* logCriticalAction of handleJobError settles (lines 199-206), finally
ErrorLogged(o) ==
    /\ jobObjs[o].exec = "logging"
    /\ FinallyOf(o, jobObjs[o])
    /\ lastTick' = NoTick
    /\ lastFailure' = NoFailure
    /\ UNCHANGED <<now, maxConcurrentJobs, abandoned>>
    /\ UNCHANGED nonSchedulerVars

\* the timer of the race fires first (lines 143-145, 156-157): handleJobTimeout,
\* finally; Promise.race does not stop job.function(), which goes on running
JobTimesOut(o) ==
    /\ jobObjs[o].exec = "running"
    /\ now >= jobObjs[o].timerAt
    /\ FinallyOf(o, handleJobTimeout(jobObjs[o], now))
    /\ abandoned' = abandoned \cup {o}
    /\ lastTick' = NoTick
    /\ lastFailure' = NoFailure
    /\ UNCHANGED <<now, maxConcurrentJobs>>
    /\ UNCHANGED nonSchedulerVars

\* a job function that lost the race settles; nothing observes it (lines 148-151)
AbandonedFunctionSettles(o) ==
    /\ o \in abandoned
    /\ abandoned' = abandoned \ {o}
    /\ lastTick' = NoTick
    /\ lastFailure' = NoFailure
    /\ UNCHANGED <<now, jobObjs, jobs, jobOrder, currentlyRunning, maxConcurrentJobs>>
    /\ UNCHANGED nonSchedulerVars

\* the clock: Date.now() advances (in steps of 30 s)
TickScheduler ==
    /\ now < MaxSchedTime
    /\ now' = now + 30000
    /\ lastTick' = NoTick
    /\ lastFailure' = NoFailure
    /\ UNCHANGED <<jobObjs, jobs, jobOrder, currentlyRunning, maxConcurrentJobs,
                   abandoned>>
    /\ UNCHANGED nonSchedulerVars

NextScheduler ==
    \/ \E j \in JobIds, s \in ScheduleArgs, p \in PriorityArgs, m \in MaxRetriesArgs,
          d \in TimeoutArgs : scheduleJob(j, s, p, m, d)
    \/ processJobQueue
    \/ \E o \in ObjIds : JobSucceeds(o)
    \/ \E o \in ObjIds : JobThrows(o)
    \/ \E o \in ObjIds : ErrorLogged(o)
    \/ \E o \in ObjIds : JobTimesOut(o)
    \/ \E o \in ObjIds : AbandonedFunctionSettles(o)
    \/ TickScheduler

(***************************************************************************)
(* The system jobs: initializeSystemJobs of unnamed/part_008 (lines        *)
(* 278-331) and the scheduler running them                                 *)
(***************************************************************************)
SystemJob(id, token, priority, maxRetries, timeout) ==
    [id |-> id, token |-> token, priority |-> priority, maxRetries |-> maxRetries,
     timeout |-> timeout]

\* the eight scheduleJob calls, in the order of the code
SystemJobs ==
    << SystemJob("auto_cleanup", "every_30_minutes", "normal", 2, 120000),
       SystemJob("performance_monitoring_report", "every_10_minutes", "low", 1, 60000),
       SystemJob("cache_optimization_preload", "every_hour", "low", 1, 60000),
       SystemJob("security_report_generation", "every_30_minutes", "high", 3, 120000),
       SystemJob("resource_monitoring_snapshot", "every_5_minutes", "normal", 1, 30000),
       SystemJob("driver_spatial_index_cleanup", "every_10_minutes", "normal", 2, 60000),
       SystemJob("demand_prediction_update", "every_15_minutes", "normal", 2, 60000),
       SystemJob("driver_utilization_prediction_update", "every_30_minutes", "normal", 2,
                 60000) >>

SystemJobIds == {SystemJobs[i].id : i \in 1..Len(SystemJobs)}

\* the scheduler is started an hour after the jobs were installed
SchedulerStart == 60 * 60 * 1000

\* initializeSystemJobs at time t: eight job objects, eight table entries
initializeSystemJobs(t) ==
    /\ jobObjs = [o \in 1..Len(SystemJobs) |->
                     newJob(SystemJobs[o].id, StringSchedule(SystemJobs[o].token),
                            SystemJobs[o].priority, Given(SystemJobs[o].maxRetries),
                            SystemJobs[o].timeout, t)]
    /\ jobs = [j \in SystemJobIds |-> CHOOSE o \in 1..Len(SystemJobs) : SystemJobs[o].id = j]
    /\ jobOrder = [o \in 1..Len(SystemJobs) |-> SystemJobs[o].id]

InitSystemJobs ==
    /\ initializeSystemJobs(0)
    /\ currentlyRunning = {}
    /\ maxConcurrentJobs = 5
    /\ abandoned = {}
    /\ lastTick = NoTick
    /\ lastFailure = NoFailure

\* the clock of the system jobs: Date.now() advances (in steps of 30 s)
TickSystemJobs ==
    /\ now < SchedulerStart + MaxSystemTicks * 30000
    /\ now' = now + 30000
    /\ lastTick' = NoTick
    /\ lastFailure' = NoFailure
    /\ UNCHANGED <<jobObjs, jobs, jobOrder, currentlyRunning, maxConcurrentJobs,
                   abandoned>>
    /\ UNCHANGED nonSchedulerVars

\* the scheduler on the system jobs, with job functions that resolve
NextSystemJobs ==
    \/ processJobQueue
    \/ \E o \in DOMAIN jobObjs : JobSucceeds(o)
    \/ TickSystemJobs

(***************************************************************************)
(* CacheManager: 017-redis-caching-performance.js and its copy in          *)
(* unnamed/part_008                                                         *)
(***************************************************************************)
CacheKeys == {"drivers_40.713_-74.006_5", "customer_prefs_u1"}
CacheData == {"v1", "v2"}

\* String.prototype.includes, for the keys and patterns of the model
InvalidatePatterns == {"drivers_", "_"}
keyIncludes == [k \in CacheKeys |->
                   [p \in InvalidatePatterns |->
                       IF p = "drivers_" THEN k = "drivers_40.713_-74.006_5" ELSE TRUE]]

\* this.cache.get(key) === undefined
NoEntry == [present |-> FALSE, data |-> "null", timestamp |-> 0, ttl |-> 0]

\* the ttlMinutes parameter with its default (lines 16, 26)
ttlMinutesOf(given) == IF given = NotGiven THEN 5 ELSE given[1]

\* the cache entry set() stores at Date.now() = t (lines 27-31)
newEntry(data, ttlMinutes, t) ==
    [present |-> TRUE, data |-> data, timestamp |-> t, ttl |-> ttlMinutes * 60 * 1000]

\* get() on the entry `cached` at Date.now() = t, without the expiry test
get_NoExpiry(cached, t) ==
    IF cached.present THEN cached.data ELSE "null"

\* get() on the entry `cached` at Date.now() = t (lines 17-23)
get(cached, t) ==
    IF cached.present /\ (t - cached.timestamp) < cached.ttl
    THEN cached.data
    ELSE "null"

NoSet == [done |-> FALSE, at |-> 0, ttlMinutes |-> 0]
NoGet == [done |-> FALSE, key |-> "-", at |-> 0, ret |-> "null"]

QuietCache ==
    /\ cache = [k \in CacheKeys |-> NoEntry]
    /\ lastSet = [k \in CacheKeys |-> NoSet]
    /\ lastGet = NoGet

nonCacheVars == <<breakerVars, resourceVars, schedulerVars, spatialVars, adaptiveVars,
                   dispatchVars, utilityVars>>

TtlArgs == {NotGiven, Given(1), Given(2)}

\* CacheManager.set(key, data, ttlMinutes) (lines 26-32)
CacheSet(key, data, ttlArg) ==
    /\ cache' = [cache EXCEPT ![key] = newEntry(data, ttlMinutesOf(ttlArg), now)]
    /\ lastSet' = [lastSet EXCEPT ![key] = [done |-> TRUE, at |-> now,
                                            ttlMinutes |-> ttlMinutesOf(ttlArg)]]
    /\ lastGet' = NoGet
    /\ UNCHANGED now
    /\ UNCHANGED nonCacheVars

\* CacheManager.get(key) (lines 16-24)
CacheGet(key) ==
    /\ lastGet' = [done |-> TRUE, key |-> key, at |-> now, ret |-> get(cache[key], now)]
    /\ UNCHANGED <<now, cache, lastSet>>
    /\ UNCHANGED nonCacheVars

\* CacheManager.invalidate(pattern) (lines 34-37)
invalidate(pattern) ==
    /\ \E k \in CacheKeys : cache[k].present /\ keyIncludes[k][pattern]
    /\ cache' = [k \in CacheKeys |->
                    IF keyIncludes[k][pattern] THEN NoEntry ELSE cache[k]]
    /\ lastGet' = NoGet
    /\ UNCHANGED <<now, lastSet>>
    /\ UNCHANGED nonCacheVars

\* the clock: Date.now() advances (in steps of one minute)
TickCache ==
    /\ now < MaxCacheTime
    /\ now' = now + 60000
    /\ lastGet' = NoGet
    /\ UNCHANGED <<cache, lastSet>>
    /\ UNCHANGED nonCacheVars

NextCache ==
    \/ \E k \in CacheKeys, v \in CacheData, m \in TtlArgs : CacheSet(k, v, m)
    \/ \E k \in CacheKeys : CacheGet(k)
    \/ \E p \in InvalidatePatterns : invalidate(p)
    \/ TickCache

(***************************************************************************)
(* Spatial driver index: 023-optimized-driver-search.js                    *)
(* Coordinates are integers in units of 1e-6 degree; a grid key is the     *)
(* pair of the two rounded-down coordinates that toFixed(6) prints.        *)
(***************************************************************************)
gridSize == 10000     \* 0.01 degree

DriverIds == {"drv1", "drv2"}

\* driver.location of the drivers of the model: two points in two adjacent cells
LocationA == [latitude |-> 40712800, longitude |-> -74006000]
LocationB == [latitude |-> 40725000, longitude |-> -74006000]
Locations == {LocationA, LocationB}

\* a location in another part of the world
LocationC == [latitude |-> 16227700, longitude |-> 117792100]

\* a location whose latitude is 0 (the equator)
EquatorLocation == [latitude |-> 0, longitude |-> -74006000]

\* driver.lastSeenOnline is null
NoHeartbeat == -1

\* what a driver document says about liveness at Date.now() = t: active, isActive,
\* lastSeenOnline (ms); seen just now, 5 or 10 minutes ago, flagged off, or never seen
Liveness(t) ==
    {l \in {<<TRUE, TRUE, t>>, <<TRUE, TRUE, t - 5 * 60 * 1000>>,
            <<TRUE, TRUE, t - 10 * 60 * 1000>>, <<FALSE, TRUE, t>>,
            <<TRUE, FALSE, t>>, <<TRUE, TRUE, NoHeartbeat>>} : l[3] >= NoHeartbeat}

driverDoc(id, l, location) ==
    [id |-> id, active |-> l[1], isActive |-> l[2], lastSeenOnline |-> l[3],
     latitude |-> location.latitude, longitude |-> location.longitude]

\* the driver documents a fetch can return at Date.now() = t: drv1 at LocationA in
\* every state of liveness and live at the other locations, drv2 live at
\* LocationA and LocationB
DriverDocs(t) ==
    {driverDoc("drv1", l, LocationA) : l \in Liveness(t)}
        \cup {driverDoc("drv1", <<TRUE, TRUE, t>>, c) :
                  c \in {LocationB, LocationC, EquatorLocation}}
        \cup {driverDoc("drv2", l, c) :
                  l \in {x \in Liveness(t) : x[1] /\ x[2] /\ x[3] > t - 10 * 60 * 1000},
                  c \in Locations}

\* the driver lists passed to updateSpatialIndex: the documents of a fetch, each
\* driver once, at most MaxDriverList drivers
DriverLists(t) ==
    {drivers \in UNION {[1..n -> DriverDocs(t)] : n \in 0..MaxDriverList} :
        \A i, j \in 1..Len(drivers) : drivers[i].id = drivers[j].id => i = j}

\* getGridKey (lines 69-74)
getGridKey(latitude, longitude) ==
    [lat |-> (latitude \div gridSize) * gridSize,
     lng |-> (longitude \div gridSize) * gridSize]

\* the test of line 53: active, isActive, seen online less than 10 minutes ago
recentlySeen(driver, t) ==
    /\ driver.active
    /\ driver.isActive
    /\ driver.lastSeenOnline # NoHeartbeat
    /\ (t - driver.lastSeenOnline) < (10 * 60 * 1000)

\* the filter of cleanupOldIndexEntries (lines 125, 129-133)
stillActive(driver, t) ==
    /\ driver.active
    /\ driver.isActive
    /\ driver.lastSeenOnline # NoHeartbeat
    /\ driver.lastSeenOnline > t - (10 * 60 * 1000)

\* gridDrivers after lines 54-60: replace the entry with the driver's id, or push
putDriver(gridDrivers, driver) ==
    IF \E i \in 1..Len(gridDrivers) : gridDrivers[i].id = driver.id
    THEN LET existingIndex == CHOOSE i \in 1..Len(gridDrivers) :
                                  /\ gridDrivers[i].id = driver.id
                                  /\ \A j \in 1..(i - 1) : gridDrivers[j].id # driver.id
         IN  [gridDrivers EXCEPT ![existingIndex] = driver]
    ELSE Append(gridDrivers, driver)

\* the body of the forEach of updateSpatialIndex for one driver (lines 46-62)
indexDriver(index, driver, t) ==
    IF driver.latitude # 0 /\ driver.longitude # 0
    THEN LET gridKey == getGridKey(driver.latitude, driver.longitude)
             withCell == IF gridKey \in DOMAIN index
                         THEN index
                         ELSE [k \in DOMAIN index \cup {gridKey} |->
                                  IF k = gridKey THEN << >> ELSE index[k]]
         IN  IF recentlySeen(driver, t)
             THEN [withCell EXCEPT ![gridKey] = putDriver(withCell[gridKey], driver)]
             ELSE withCell
    ELSE index

RECURSIVE indexDrivers_Partial(_, _, _, _)
\* an index that is installed after the first driver of the list only
indexDrivers_Partial(index, drivers, from, t) ==
    IF from > Len(drivers)
    THEN index
    ELSE indexDriver(index, drivers[from], t)

\* newSpatialIndex after the forEach over drivers[from..] (lines 43-63)
RECURSIVE indexDrivers(_, _, _, _)
indexDrivers(index, drivers, from, t) ==
    IF from > Len(drivers)
    THEN index
    ELSE indexDrivers(indexDriver(index, drivers[from], t), drivers, from + 1, t)

\* drivers.filter(...) of cleanupOldIndexEntries (lines 129-133)
activeDrivers(drivers, t) == SelectSeq(drivers, LAMBDA driver : stillActive(driver, t))

\* the index cleanupOldIndexEntries leaves at Date.now() = t (lines 124-140)
cleanedIndex(index, t) ==
    [k \in {c \in DOMAIN index : Len(activeDrivers(index[c], t)) # 0} |->
        activeDrivers(index[k], t)]

\* a query of getDriversNearLocation: the centre in 1e-6 degree, the radius in
\* 1/1000 mile
Query(latitude, longitude, radiusMiles) ==
    [latitude |-> latitude, longitude |-> longitude, radiusMiles |-> radiusMiles]

\* the queries of the model: around LocationA with 0.5 and 1 mile, and 0.5 mile
\* around a point 0.26 mile from LocationC
Queries == {Query(40712800, -74006000, 500), Query(40712800, -74006000, 1000),
            Query(16231500, 117791700, 500)}

\* distanceRadius (unnamed/part_008, lines 342-353): the haversine distance in
\* 1/1000 mile (rounded down) from the centres of the queries to the locations of
\* the model, as the double arithmetic of the function gives it
distanceRadius(lat1, lon1, lat2, lon2) ==
    IF lat1 = 40712800 /\ lon1 = -74006000
    THEN CASE lat2 = 40712800 /\ lon2 = -74006000 -> 0
           [] lat2 = 40725000 /\ lon2 = -74006000 -> 842
           [] lat2 = 16227700 /\ lon2 = 117792100 -> 8430484
           [] OTHER -> 2813014
    ELSE CASE lat2 = 40712800 /\ lon2 = -74006000 -> 8430231
           [] lat2 = 40725000 /\ lon2 = -74006000 -> 8429411
           [] lat2 = 16227700 /\ lon2 = 117792100 -> 263
           [] OTHER -> 11056967

\* the loop of lines 116-120: the values Math.floor(lat / gridSize) takes inside
\* getGridKey for the successive doubles lat = startLat, startLat + gridSize, ... up
\* to endLat, as double arithmetic gives them (16.22 / 0.01 is just below 1622, and
\* 40.69 / 0.01 just below 4069)
loopLatCells(query) ==
    CASE query = Query(40712800, -74006000, 500) -> <<4070, 4071, 4072, 4072>>
      [] query = Query(40712800, -74006000, 1000) -> <<4068, 4069, 4070, 4071, 4072>>
      [] query = Query(16231500, 117791700, 500) -> <<1621, 1623, 1624>>

\* the same for the inner loop: Math.floor(lng / gridSize) for lng = startLng, ...
loopLngCells(query) ==
    CASE query = Query(40712800, -74006000, 500) -> <<-7402, -7401, -7400>>
      [] query = Query(40712800, -74006000, 1000) -> <<-7403, -7402, -7401, -7400, -7399>>
      [] query = Query(16231500, 117791700, 500) -> <<11778, 11779>>

RECURSIVE Dedup(_)
\* the elements of a sequence in the order of their first occurrence
Dedup(seq) ==
    IF seq = << >>
    THEN << >>
    ELSE LET front == Dedup(SubSeq(seq, 1, Len(seq) - 1))
             last == seq[Len(seq)]
         IN  IF \E i \in 1..Len(front) : front[i] = last THEN front
             ELSE Append(front, last)

\* getNearbyGridKeys (lines 101-122): the keys of the bounding box, in the order the
\* Set received them
getNearbyGridKeys(query) ==
    LET lats == loopLatCells(query)
        lngs == loopLngCells(query)
    IN  Dedup([n \in 1..(Len(lats) * Len(lngs)) |->
                  [lat |-> lats[((n - 1) \div Len(lngs)) + 1] * gridSize,
                   lng |-> lngs[((n - 1) % Len(lngs)) + 1] * gridSize]])

RECURSIVE gridDriversOf(_, _, _)
\* the drivers of the cells gridKeys[from..], cell after cell (lines 80-82)
gridDriversOf(index, gridKeys, from) ==
    IF from > Len(gridKeys)
    THEN << >>
    ELSE (IF gridKeys[from] \in DOMAIN index THEN index[gridKeys[from]] ELSE << >>)
            \o gridDriversOf(index, gridKeys, from + 1)

\* nearbyDrivers.set(driver.id, {...driver, distance}) (lines 89-94): a Map keeps
\* the position of a key it already has
setNearby(nearbyDrivers, driver, distance) ==
    LET entry == [driver |-> driver, distance |-> distance]
    IN  IF \E i \in 1..Len(nearbyDrivers) : nearbyDrivers[i].driver.id = driver.id
        THEN [i \in 1..Len(nearbyDrivers) |->
                 IF nearbyDrivers[i].driver.id = driver.id THEN entry
                 ELSE nearbyDrivers[i]]
        ELSE Append(nearbyDrivers, entry)

RECURSIVE collectNearby(_, _, _, _)
\* nearbyDrivers after the drivers candidates[from..] (lines 82-95)
collectNearby(nearbyDrivers, candidates, from, query) ==
    IF from > Len(candidates)
    THEN nearbyDrivers
    ELSE LET driver == candidates[from]
             distance == distanceRadius(query.latitude, query.longitude,
                                        driver.latitude, driver.longitude)
         IN  collectNearby(IF distance <= query.radiusMiles
                           THEN setNearby(nearbyDrivers, driver, distance)
                           ELSE nearbyDrivers,
                           candidates, from + 1, query)

RECURSIVE insertByDistance(_, _)
\* one step of the stable sort by (a, b) => a.distance - b.distance
insertByDistance(sorted, entry) ==
    IF sorted = << >>
    THEN <<entry>>
    ELSE IF sorted[Len(sorted)].distance <= entry.distance
         THEN Append(sorted, entry)
         ELSE Append(insertByDistance(SubSeq(sorted, 1, Len(sorted) - 1), entry),
                     sorted[Len(sorted)])

RECURSIVE sortByDistance(_)
sortByDistance(entries) ==
    IF entries = << >>
    THEN << >>
    ELSE insertByDistance(sortByDistance(SubSeq(entries, 1, Len(entries) - 1)),
                          entries[Len(entries)])

\* getDriversNearLocation on the index (lines 76-99)
getDriversNearLocation(index, query) ==
    sortByDistance(collectNearby(<< >>,
                                 gridDriversOf(index, getNearbyGridKeys(query), 1),
                                 1, query))

\* spatialIndex = new Map()
EmptyIndex == [k \in {} |-> << >>]

\* no updateSpatialIndex since the index was created or cleared
NoUpsert == [done |-> FALSE, drivers |-> << >>, at |-> 0]

\* no getDriversNearLocation recorded
NoNear == [done |-> FALSE, query |-> Query(0, 0, 0), result |-> << >>]

\* the orders whose dispatches search for drivers, each with the location of its
\* vendor and its dispatch radius: 0.5 mile and 1 mile around LocationA
SearchOrders == {"orderA", "orderB"}
vendorQuery == [o \in SearchOrders |->
                   IF o = "orderA" THEN Query(40712800, -74006000, 500)
                   ELSE Query(40712800, -74006000, 1000)]

IdleSearch == [pc |-> "idle", drivers |-> << >>, installed |-> EmptyIndex]

NoSearch == [done |-> FALSE, order |-> "-", fromCache |-> FALSE, drivers |-> << >>,
             installed |-> EmptyIndex, queried |-> EmptyIndex, candidates |-> << >>]

\* this.cache.get(cacheKey) === undefined
NoDriversEntry == [present |-> FALSE, data |-> << >>, timestamp |-> 0, ttl |-> 0]

QuietSearch ==
    /\ search = [o \in SearchOrders |-> IdleSearch]
    /\ optimizedDrivers = [o \in SearchOrders |-> NoDriversEntry]
    /\ lastSearch = NoSearch

QuietSpatial ==
    /\ spatialIndex = EmptyIndex
    /\ lastUpsert = NoUpsert
    /\ lastNear = NoNear
    /\ QuietSearch

nonSpatialVars == <<breakerVars, resourceVars, schedulerVars, cacheVars, adaptiveVars,
                   dispatchVars, utilityVars>>

\* updateSpatialIndex(drivers), its closing cleanupOldIndexEntries included
\* (lines 40-67)
updateSpatialIndex(drivers) ==
    /\ spatialIndex' = cleanedIndex(indexDrivers(EmptyIndex, drivers, 1, now), now)
    /\ lastUpsert' = [done |-> TRUE, drivers |-> drivers, at |-> now]
    /\ lastNear' = NoNear
    /\ UNCHANGED now
    /\ UNCHANGED searchVars
    /\ UNCHANGED nonSpatialVars

\* the scheduled job driver_spatial_index_cleanup (lines 124-142)
cleanupOldIndexEntries ==
    /\ spatialIndex' = cleanedIndex(spatialIndex, now)
    /\ lastNear' = NoNear
    /\ UNCHANGED <<now, lastUpsert>>
    /\ UNCHANGED searchVars
    /\ UNCHANGED nonSpatialVars

\* OptimizedDriverSearch.spatialIndex.clear() of the emergency memory cleanup
clearSpatialIndex ==
    /\ spatialIndex # EmptyIndex
    /\ spatialIndex' = EmptyIndex
    /\ lastUpsert' = NoUpsert
    /\ lastNear' = NoNear
    /\ UNCHANGED now
    /\ UNCHANGED searchVars
    /\ UNCHANGED nonSpatialVars

\* a caller runs getDriversNearLocation (lines 76-99)
NearQuery(query) ==
    /\ lastNear' = [done |-> TRUE, query |-> query,
                    result |-> getDriversNearLocation(spatialIndex, query)]
    /\ UNCHANGED <<now, spatialIndex, lastUpsert>>
    /\ UNCHANGED searchVars
    /\ UNCHANGED nonSpatialVars

\* the clock: Date.now() advances (in steps of 5 minutes)
TickSpatial ==
    /\ now < MaxSpatialTime
    /\ now' = now + 5 * 60 * 1000
    /\ lastNear' = NoNear
    /\ UNCHANGED <<spatialIndex, lastUpsert>>
    /\ UNCHANGED searchVars
    /\ UNCHANGED nonSpatialVars

NextSpatial ==
    \/ \E drivers \in DriverLists(now) : updateSpatialIndex(drivers)
    \/ cleanupOldIndexEntries
    \/ clearSpatialIndex
    \/ \E query \in Queries : NearQuery(query)
    \/ TickSpatial

(***************************************************************************)
(* getAvailableDriversOptimized: 023-optimized-driver-search.js, lines     *)
(* 10-38. A call is suspended at each await; the steps of other calls and  *)
(* the emergency memory cleanup run in between.                            *)
(***************************************************************************)
\* the driver lists getAvailableDrivers resolves with at Date.now() = t: drivers
\* seen just now, in the order of their ids, drv1 at LocationA or LocationB and
\* drv2 at LocationA
SearchFetches(t) ==
    {drivers \in DriverLists(t) :
        /\ \A i \in 1..Len(drivers) :
               /\ drivers[i] \in {driverDoc("drv1", <<TRUE, TRUE, t>>, LocationA),
                                  driverDoc("drv1", <<TRUE, TRUE, t>>, LocationB),
                                  driverDoc("drv2", <<TRUE, TRUE, t>>, LocationA)}
        /\ Len(drivers) = 2 => drivers[1].id = "drv1"}

nonSearchVars == <<breakerVars, resourceVars, schedulerVars, cacheVars, adaptiveVars,
                  dispatchVars, utilityVars>>

\* the call up to the await of getAvailableDrivers (lines 11-19, 35): the entry of
\* the cache under the key of the order is returned if it is fresh and not empty,
\* otherwise the fetch starts
SearchCall(o) ==
    /\ search[o].pc = "idle"
    /\ LET entry == optimizedDrivers[o]
           hit == /\ entry.present
                  /\ (now - entry.timestamp) < entry.ttl
                  /\ Len(entry.data) > 0
       IN  IF hit
           THEN /\ lastSearch' = [done |-> TRUE, order |-> o, fromCache |-> TRUE,
                                  drivers |-> << >>, installed |-> EmptyIndex,
                                  queried |-> EmptyIndex, candidates |-> entry.data]
                /\ UNCHANGED search
           ELSE /\ search' = [search EXCEPT ![o].pc = "fetching"]
                /\ UNCHANGED lastSearch
    /\ UNCHANGED <<now, spatialIndex, lastUpsert, lastNear, optimizedDrivers>>
    /\ UNCHANGED nonSearchVars

\* getAvailableDrivers resolves with `drivers`; fetchAndIndexDrivers goes on to
\* updateSpatialIndex(drivers), which runs to its end, and is suspended at the
\* await of line 36
FetchResolves(o, drivers) ==
    /\ search[o].pc = "fetching"
    /\ LET installed == cleanedIndex(indexDrivers(EmptyIndex, drivers, 1, now), now)
       IN  /\ spatialIndex' = installed
           /\ search' = [search EXCEPT ![o] = [pc |-> "indexed", drivers |-> drivers,
                                               installed |-> installed]]
    /\ lastUpsert' = [done |-> TRUE, drivers |-> drivers, at |-> now]
    /\ lastNear' = NoNear
    /\ UNCHANGED <<now, optimizedDrivers, lastSearch>>
    /\ UNCHANGED nonSearchVars

\* the call resumes after fetchAndIndexDrivers has returned (lines 19-31): the
\* radius query on the index as it is now, CacheManager.set, return
QueryRuns(o) ==
    /\ search[o].pc = "indexed"
    /\ LET relevantDrivers == getDriversNearLocation(spatialIndex, vendorQuery[o])
       IN  /\ optimizedDrivers' =
                  [optimizedDrivers EXCEPT ![o] = newEntry(relevantDrivers, 2, now)]
           /\ lastSearch' = [done |-> TRUE, order |-> o, fromCache |-> FALSE,
                             drivers |-> search[o].drivers,
                             installed |-> search[o].installed,
                             queried |-> spatialIndex, candidates |-> relevantDrivers]
           /\ lastNear' = [done |-> TRUE, query |-> vendorQuery[o],
                           result |-> relevantDrivers]
    /\ search' = [search EXCEPT ![o] = IdleSearch]
    /\ UNCHANGED <<now, spatialIndex, lastUpsert>>
    /\ UNCHANGED nonSearchVars

\* performMemoryCleanup (024-smart-resource-management.js, lines 117-124) clears
\* the index
MemoryCleanupClears ==
    /\ spatialIndex # EmptyIndex
    /\ spatialIndex' = EmptyIndex
    /\ lastUpsert' = NoUpsert
    /\ lastNear' = NoNear
    /\ UNCHANGED <<now, searchVars>>
    /\ UNCHANGED nonSearchVars

\* the clock: Date.now() advances (in steps of two minutes)
TickSearch ==
    /\ now < MaxSearchTime
    /\ now' = now + 120000
    /\ UNCHANGED <<spatialIndex, lastUpsert, lastNear, searchVars>>
    /\ UNCHANGED nonSearchVars

NextSearch ==
    \/ \E o \in SearchOrders : SearchCall(o)
    \/ \E o \in SearchOrders, drivers \in SearchFetches(now) : FetchResolves(o, drivers)
    \/ \E o \in SearchOrders : QueryRuns(o)
    \/ MemoryCleanupClears
    \/ TickSearch

(***************************************************************************)
(* AdvancedCacheManager: 026-advanced-cache-manager.js                     *)
(***************************************************************************)
SmartKeys == {"customer_prefs_u1"}
SmartCallers == {"a1", "a2"}

\* what the fallback function resolves with: data, or null
LoaderValues == {"v1", "v2", "null"}

\* the baseMinutes arguments of the model
BaseMinutes == {1, 2}

\* recordAccess (lines 28-39): push Date.now(), keep the last 100 once over 200
recordAccess(pattern, t) ==
    LET pushed == Append(pattern, t)
    IN  IF Len(pushed) > 200
        THEN SubSeq(pushed, Len(pushed) - 100 + 1, Len(pushed))
        ELSE pushed

\* recordHit (lines 41-48) and recordMiss (lines 50-55) on the stats of one key
recordHit(stats) == [hits |-> stats.hits + 1, total |-> stats.total + 1]
recordMiss(stats) == [hits |-> stats.hits, total |-> stats.total + 1]

\* the multiplier of calculateOptimalTTL in thousandths (lines 69-81)
ttlMultiplier(accessFrequency, stats) ==
    LET byFrequency == IF accessFrequency > 50 THEN 300
                       ELSE IF accessFrequency > 20 THEN 200
                       ELSE IF accessFrequency < 5 THEN 50
                       ELSE 100
        byHitRate == IF stats.total > 10
                     THEN IF stats.hits * 10 > 9 * stats.total THEN 12
                          ELSE IF stats.hits * 10 < 3 * stats.total THEN 8
                          ELSE 10
                     ELSE 10
    IN  byFrequency * byHitRate

\* the baseMinutes up to 240 for which the double baseMinutes * 3.5999999999999996
\* (3.0 * 1.2 evaluates to that double) lies below the whole number 3.6 * baseMinutes
RoundedBelow ==
    {15, 25, 30, 35, 45, 50, 55, 60, 65, 70, 85, 90, 95, 100, 105, 110, 115, 120, 125,
     130, 135, 140, 165, 170, 175, 180, 185, 190, 195, 200, 205, 210, 215, 220, 225,
     230, 235, 240}

\* Math.floor(baseMinutes * multiplier) in double arithmetic (line 84), the multiplier
\* in thousandths, for baseMinutes up to 240: the double product equals or exceeds
\* the exact one by less than the distance to the next whole number, except for the
\* multiplier 3.0 * 1.2 and the baseMinutes of RoundedBelow
floorOfProduct(baseMinutes, multiplier) ==
    IF multiplier = 3600 /\ baseMinutes \in RoundedBelow
    THEN (baseMinutes * multiplier) \div 1000 - 1
    ELSE (baseMinutes * multiplier) \div 1000

\* calculateOptimalTTL(key, baseMinutes) at Date.now() = t (lines 57-87)
calculateOptimalTTL(pattern, stats, baseMinutes, t) ==
    IF Len(pattern) < 5
    THEN baseMinutes
    ELSE LET recentAccesses == SelectSeq(pattern, LAMBDA time : t - time < 60 * 60 * 1000)
             scaled == floorOfProduct(baseMinutes, ttlMultiplier(Len(recentAccesses), stats))
             capped == IF scaled < 120 THEN scaled ELSE 120
         IN  IF capped > 1 THEN capped ELSE 1

NoStats == [hits |-> 0, total |-> 0]

\* a getWithSmartTTL call that has returned before this one started
NoDone == [done |-> FALSE, value |-> "null", loaded |-> FALSE, setAt |-> 0, ttlMinutes |-> 0]

IdleSmart == [pc |-> "idle", key |-> "-", base |-> 0, cached |-> "null", ret |-> "null",
              loaded |-> FALSE, startAt |-> 0, prev |-> NoDone]

QuietAdaptive ==
    /\ accessPatterns = [k \in SmartKeys |-> << >>]
    /\ hitRates = [k \in SmartKeys |-> NoStats]
    /\ smart = [c \in SmartCallers |-> IdleSmart]
    /\ lastDone = [k \in SmartKeys |-> NoDone]
    /\ smartCalls = 0

nonAdaptiveVars == <<breakerVars, resourceVars, schedulerVars, spatialVars, lastGet,
                     dispatchVars, utilityVars>>

SmartInProgress(c) == smart[c].pc \in {"got", "loading"}

\* getWithSmartTTL is called (lines 10-13): recordAccess, then super.get runs up to
\* the caller's await
SmartCall(c, k, m) ==
    /\ smart[c].pc \in {"idle", "done"}
    /\ smartCalls < MaxSmartCalls
    /\ smartCalls' = smartCalls + 1
    /\ accessPatterns' = [accessPatterns EXCEPT ![k] = recordAccess(@, now)]
    /\ smart' = [smart EXCEPT ![c] =
          [pc |-> "got", key |-> k, base |-> m, cached |-> get(cache[k], now),
           ret |-> "null", loaded |-> FALSE, startAt |-> now,
           prev |-> IF \E d \in SmartCallers : SmartInProgress(d) /\ smart[d].key = k
                    THEN NoDone ELSE lastDone[k]]]
    /\ UNCHANGED <<now, cache, lastSet, hitRates, lastDone>>
    /\ UNCHANGED nonAdaptiveVars

\* the call resumes with a cached value (lines 14-17): recordHit, return it
SmartHit(c) ==
    /\ smart[c].pc = "got"
    /\ smart[c].cached # "null"
    /\ hitRates' = [hitRates EXCEPT ![smart[c].key] = recordHit(@)]
    /\ smart' = [smart EXCEPT ![c].pc = "done", ![c].ret = smart[c].cached]
    /\ lastDone' = [lastDone EXCEPT ![smart[c].key] =
          [done |-> TRUE, value |-> smart[c].cached, loaded |-> FALSE,
           setAt |-> lastSet[smart[c].key].at,
           ttlMinutes |-> lastSet[smart[c].key].ttlMinutes]]
    /\ UNCHANGED <<now, cache, lastSet, accessPatterns, smartCalls>>
    /\ UNCHANGED nonAdaptiveVars

\* the call resumes with null (lines 19-21): recordMiss, the fallback function is
\* invoked
SmartMiss(c) ==
    /\ smart[c].pc = "got"
    /\ smart[c].cached = "null"
    /\ hitRates' = [hitRates EXCEPT ![smart[c].key] = recordMiss(@)]
    /\ smart' = [smart EXCEPT ![c].pc = "loading", ![c].loaded = TRUE]
    /\ UNCHANGED <<now, cache, lastSet, accessPatterns, lastDone, smartCalls>>
    /\ UNCHANGED nonAdaptiveVars

\* the fallback function resolves with data (lines 21-25): calculateOptimalTTL,
\* super.set, return data
LoaderResolves(c, data) ==
    /\ smart[c].pc = "loading"
    /\ LET k == smart[c].key
           optimizedTTL == calculateOptimalTTL(accessPatterns[k], hitRates[k],
                                               smart[c].base, now)
       IN  /\ cache' = [cache EXCEPT ![k] = newEntry(data, optimizedTTL, now)]
           /\ lastSet' = [lastSet EXCEPT ![k] = [done |-> TRUE, at |-> now,
                                                 ttlMinutes |-> optimizedTTL]]
           /\ lastDone' = [lastDone EXCEPT ![k] =
                 [done |-> TRUE, value |-> data, loaded |-> TRUE, setAt |-> now,
                  ttlMinutes |-> optimizedTTL]]
    /\ smart' = [smart EXCEPT ![c].pc = "done", ![c].ret = data]
    /\ UNCHANGED <<now, accessPatterns, hitRates, smartCalls>>
    /\ UNCHANGED nonAdaptiveVars

\* the fallback function rejects (line 21): getWithSmartTTL rejects, nothing is stored
LoaderRejects(c) ==
    /\ smart[c].pc = "loading"
    /\ smart' = [smart EXCEPT ![c] = IdleSmart]
    /\ UNCHANGED <<now, cache, lastSet, accessPatterns, hitRates, lastDone, smartCalls>>
    /\ UNCHANGED nonAdaptiveVars

\* the clock: Date.now() advances (in steps of one minute)
TickAdaptive ==
    /\ now < MaxSmartTime
    /\ now' = now + 60000
    /\ UNCHANGED <<cache, lastSet, accessPatterns, hitRates, smart, lastDone, smartCalls>>
    /\ UNCHANGED nonAdaptiveVars

NextAdaptive ==
    \/ \E c \in SmartCallers, k \in SmartKeys, m \in BaseMinutes : SmartCall(c, k, m)
    \/ \E c \in SmartCallers : SmartHit(c)
    \/ \E c \in SmartCallers : SmartMiss(c)
    \/ \E c \in SmartCallers, v \in LoaderValues : LoaderResolves(c, v)
    \/ \E c \in SmartCallers : LoaderRejects(c)
    \/ TickAdaptive

(***************************************************************************)
(* The dispatch entry point: exports.dispatchOrder of index.js             *)
(***************************************************************************)
DispatchRequests == {"order1"}

\* the circuit breaker key of operation 'dispatch' and the order's vendorID
\* (orderData.vendorID is 'vendorA', line 301)
DispatchBreakerKey == "dispatch_vendorA"

IdleDispatch == [pc |-> "idle", result |-> "none", resetAtCall |-> -1,
                 validated |-> FALSE]

QuietDispatch == dispatch = [d \in DispatchRequests |-> IdleDispatch]

\* the resetTime of the breaker if it is OPEN and not past it at t, else -1
OpenUntil(b, t) == IF b.state = "OPEN" /\ t <= b.resetTime THEN b.resetTime ELSE -1

\* the errors validateAdvancedSecurity rejects with: an HttpsError code, or another
\* error (016-advanced-security-auth.js, lines 21-48)
SecurityErrors == {"permission-denied", "other"}

\* the catch block of lines 348-355: an HttpsError is rethrown, anything else is
\* wrapped into HttpsError('internal')
surfaced(error) == IF error = "other" THEN "internal" ELSE error

\* dispatchOrder is called (lines 282-286): up to await validateAdvancedSecurity
DispatchRequested(d) ==
    /\ dispatch[d].pc \in {"idle", "done"}
    /\ dispatch' = [dispatch EXCEPT ![d] =
                       [pc |-> "validating", result |-> "none", validated |-> FALSE,
                        resetAtCall |-> OpenUntil(circuitBreakers[DispatchBreakerKey], now)]]
    /\ UNCHANGED <<now, breakerVars, resourceVars, schedulerVars, cacheVars, spatialVars,
                   adaptiveVars, utilityVars>>

\* validateAdvancedSecurity rejects (lines 286, 348-355)
SecurityRejects(d, error) ==
    /\ dispatch[d].pc = "validating"
    /\ dispatch' = [dispatch EXCEPT ![d].pc = "done", ![d].result = surfaced(error)]
    /\ UNCHANGED <<now, breakerVars, resourceVars, schedulerVars, cacheVars, spatialVars,
                   adaptiveVars, utilityVars>>

\* validateAdvancedSecurity resolves: await trackOrderFlowMetrics (lines 290-293)
SecurityValidated(d) ==
    /\ dispatch[d].pc = "validating"
    /\ dispatch' = [dispatch EXCEPT ![d].pc = "tracking", ![d].validated = TRUE]
    /\ UNCHANGED <<now, breakerVars, resourceVars, schedulerVars, cacheVars, spatialVars,
                   adaptiveVars, utilityVars>>

\* trackOrderFlowMetrics resolves: acquireResource('activeDispatch', 1) (line 296).
\* No key maxActiveDispatch exists in resourceLimits, so acquireResource throws
\* Error('Undefined resource type'), which the outer catch wraps (lines 348-355);
\* the driver search, the matching and the notification of lines 297-343, which
\* would follow a granted acquisition, are not reached. No circuit breaker is
\* consulted anywhere in the function.
FlowTracked(d) ==
    /\ dispatch[d].pc = "tracking"
    /\ IF limitUndefined("activeDispatch")
       THEN /\ dispatch' = [dispatch EXCEPT ![d].pc = "done",
                                            ![d].result = surfaced("other")]
            /\ UNCHANGED resourceVars
       ELSE /\ dispatch' = [dispatch EXCEPT ![d].pc = "searching"]
            /\ resourceUsage' = [resourceUsage EXCEPT !.activeDispatch = @ + 1]
            /\ UNCHANGED <<task, lastHeapSample, lastOp>>
    /\ UNCHANGED <<now, breakerVars, schedulerVars, cacheVars, spatialVars, adaptiveVars, utilityVars>>

NextDispatch ==
    \/ \E d \in DispatchRequests : DispatchRequested(d)
    \/ \E d \in DispatchRequests, error \in SecurityErrors : SecurityRejects(d, error)
    \/ \E d \in DispatchRequests : SecurityValidated(d)
    \/ \E d \in DispatchRequests : FlowTracked(d)
    \/ NextBreaker

\* concurrent dispatchOrder calls, for different orders
AdmissionRequests == {"order1", "order2", "order3"}

InitAdmission == dispatch = [d \in AdmissionRequests |-> IdleDispatch]

NextAdmission ==
    \/ \E d \in AdmissionRequests : DispatchRequested(d)
    \/ \E d \in AdmissionRequests, error \in SecurityErrors : SecurityRejects(d, error)
    \/ \E d \in AdmissionRequests : SecurityValidated(d)
    \/ \E d \in AdmissionRequests : FlowTracked(d)

\* the breaker options of the dispatch model: the circuit opens at the first failure
DispatchOptions == [maxFailures |-> 1, resetTimeoutMs |-> 100,
                    retryAttempts |-> 2, retryDelayMs |-> 50]

InitDispatch ==
    /\ circuitBreakers = [k \in Keys |-> NoBreaker]
    /\ cfg = DispatchOptions
    /\ run = [c \in Callers |-> IdleRun]
    /\ failStreak = [k \in Keys |-> 0]
    /\ lastStep = NoStep

(***************************************************************************)
(* Driver matching: SmartDriverMatcher of 021-smart-driver-matching.js     *)
(***************************************************************************)
MatchIds == {"drv1", "drv2", "drv3"}

\* what the five sub-score functions of a driver resolve to (points)
SubScores(dist, perf, avail, pref, realtime) ==
    [distance |-> dist, performance |-> perf, availability |-> avail,
     preference |-> pref, realtime |-> realtime]

\* the sub-scores the candidates of the model have: a near, idle driver of the
\* vendor; one the customer prefers as well; a far, busy one in the rush hour;
\* and a near one with a better record that carries an order
ScoreProfiles ==
    { SubScores(100, 75, 100, 80, 100),
      SubScores(100, 75, 100, 90, 100),
      SubScores(50, 75, 70, 80, 110),
      SubScores(100, 100, 75, 80, 100) }

\* calculateDriverScore (lines 18-38), in hundredths of a point: the running
\* score is kept as an exact fraction (over 10, 40, 200, 4000, 40000) and
\* Math.round(score * 100) / 100 rounds it half up
calculateDriverScore(sub) ==
    LET s1 == 7 * 100 + 3 * sub.distance              \* score*0.70 + distance*0.30
        s2 == 3 * s1 + 10 * sub.performance           \* score*0.75 + performance*0.25
        s3 == 4 * s2 + 40 * sub.availability          \* score*0.80 + availability*0.20
        s4 == 17 * s3 + 600 * sub.preference          \* score*0.85 + preference*0.15
        s5 == 9 * s4 + 4000 * sub.realtime            \* score*0.90 + realtime*0.10
    IN  (s5 + 200) \div 400

\* a candidate list: drivers with distinct ids, each with its sub-scores
RECURSIVE CandidateLists(_)
CandidateLists(n) ==
    IF n = 0
    THEN { << >> }
    ELSE LET shorter == CandidateLists(n - 1)
         IN  shorter \cup
             { Append(l, [id |-> i, sub |-> p]) :
                 l \in { s \in shorter : Len(s) = n - 1 },
                 i \in MatchIds, p \in ScoreProfiles }

DistinctIds(l) == \A i, j \in 1..Len(l) : l[i].id = l[j].id => i = j

\* { ...driver, matchScore: score } (line 12)
scored(driver) ==
    [id |-> driver.id, sub |-> driver.sub, matchScore |-> calculateDriverScore(driver.sub)]

\* a sort that puts an entry before the entries of equal matchScore
RECURSIVE insertByMatchScore_BeforeEqual(_, _)
insertByMatchScore_BeforeEqual(sorted, entry) ==
    IF sorted = << >>
    THEN <<entry>>
    ELSE IF sorted[Len(sorted)].matchScore > entry.matchScore
         THEN Append(sorted, entry)
         ELSE Append(insertByMatchScore_BeforeEqual(SubSeq(sorted, 1, Len(sorted) - 1),
                                                    entry),
                     sorted[Len(sorted)])

\* Array.prototype.sort with (a, b) => b.matchScore - a.matchScore (line 15):
\* the sort is stable, an entry goes behind the entries that compare <= 0 to it
RECURSIVE insertByMatchScore(_, _)
insertByMatchScore(sorted, entry) ==
    IF sorted = << >>
    THEN <<entry>>
    ELSE IF entry.matchScore - sorted[Len(sorted)].matchScore <= 0
         THEN Append(sorted, entry)
         ELSE Append(insertByMatchScore(SubSeq(sorted, 1, Len(sorted) - 1), entry),
                     sorted[Len(sorted)])

RECURSIVE sortByMatchScore(_)
sortByMatchScore(entries) ==
    IF entries = << >>
    THEN << >>
    ELSE insertByMatchScore(sortByMatchScore(SubSeq(entries, 1, Len(entries) - 1)),
                            entries[Len(entries)])

\* findOptimalDriver (lines 7-16): Promise.all keeps the order of the drivers
findOptimalDriver(availableDrivers) ==
    sortByMatchScore([i \in 1..Len(availableDrivers) |-> scored(availableDrivers[i])])

NoMatch == [done |-> FALSE, drivers |-> << >>, result |-> << >>]

NoScore == [done |-> FALSE, sub |-> SubScores(0, 0, 0, 0, 0), matchScore |-> 0]

QuietMatching == matched = NoMatch /\ lastScore = NoScore

nonMatchingVars == <<now, breakerVars, resourceVars, schedulerVars, cacheVars, spatialVars,
                     adaptiveVars, dispatchVars, threatVars, ttlVars, meterVars, monitorVars>>

\* a caller runs findOptimalDriver (lines 7-16)
MatchCall(drivers) ==
    /\ matched' = [done |-> TRUE, drivers |-> drivers,
                   result |-> findOptimalDriver(drivers)]
    /\ UNCHANGED <<lastScore>>
    /\ UNCHANGED nonMatchingVars

NextMatching ==
    \E drivers \in { l \in CandidateLists(MaxCandidates) : DistinctIds(l) } :
        MatchCall(drivers)

(***************************************************************************)
(* The five sub-scores of calculateDriverScore, from what they read        *)
(* (021-smart-driver-matching.js, lines 40-191).  Distances are whole      *)
(* miles, times whole minutes, the average rating is in tenths of a star;  *)
(* the inputs of the model give sub-scores in whole points.                *)
(***************************************************************************)
Max(a, b) == IF a >= b THEN a ELSE b

Min(a, b) == IF a <= b THEN a ELSE b

\* calculateDistanceScore (lines 40-59); distance: NotGiven when the driver has
\* no location or the vendor no coordinates, else Given(miles)
calculateDistanceScore(distance) ==
    IF distance = NotGiven
    THEN 50
    ELSE LET distanceMiles == distance[1]
         IN  IF distanceMiles <= 5
             THEN 100
             ELSE Max(0, 100 - ((distanceMiles - 5) * 10))

\* calculatePerformanceScore (lines 61-116); performance: NotGiven when the
\* snapshot is empty or the query throws, else Given(statistics of the documents)
calculatePerformanceScore(performance) ==
    IF performance = NotGiven
    THEN 75
    ELSE LET stats == performance[1]
             successRate == (stats.successfulDeliveries * 100) \div stats.totalDeliveries
             tenths == Min(successRate, 100) * 4           \* successRate * 0.4
                       + stats.avgRating * 6               \* (avgRating / 5) * 100 * 0.3
                       + Max(0, 100 - ((stats.avgTime - 20) * 2)) * 3
         IN  Max(0, Min(1000, tenths)) \div 10

\* calculateAvailabilityScore (lines 118-142); lastSeen: NotGiven without
\* lastSeenOnline, else Given(minutes since)
calculateAvailabilityScore(currentOrders, active, lastSeen) ==
    LET afterOrders == IF currentOrders > 0
                       THEN 100 - Min(currentOrders * 30, 100)
                       ELSE 100
    IN  IF ~active
        THEN 0
        ELSE LET afterSeen ==
                     IF lastSeen # NotGiven /\ lastSeen[1] > 5
                     THEN afterOrders - Min((lastSeen[1] - 5) * 5, afterOrders)
                     ELSE afterOrders
             IN  Max(0, afterSeen)

\* calculatePreferenceScore (lines 144-169)
calculatePreferenceScore(preference) ==
    CASE preference = "customer_preferred" -> 100
      [] preference = "customer_blocked" -> 0
      [] preference = "vendor_preferred" -> 90
      [] OTHER -> 80

\* calculateRealtimeScore (lines 171-191)
calculateRealtimeScore(weather, traffic, hour) ==
    LET afterWeather == IF weather \in {"rain", "snow"} THEN 100 - 10 ELSE 100
        afterTraffic == IF traffic = "heavy" THEN afterWeather - 15 ELSE afterWeather
        afterHour == IF (hour >= 11 /\ hour <= 14) \/ (hour >= 17 /\ hour <= 21)
                     THEN afterTraffic + 10
                     ELSE afterTraffic
    IN  Max(0, afterHour)

\* what a call reads of the driver, the order and the context
Distances == {NotGiven} \cup {Given(m) : m \in {5, 6, 15, 20}}
Performances ==
    {NotGiven} \cup
    { Given([totalDeliveries |-> 2, successfulDeliveries |-> 2, avgRating |-> 50,
             avgTime |-> 20]),
      Given([totalDeliveries |-> 2, successfulDeliveries |-> 1, avgRating |-> 45,
             avgTime |-> 30]),
      Given([totalDeliveries |-> 4, successfulDeliveries |-> 0, avgRating |-> 10,
             avgTime |-> 80]),
      Given([totalDeliveries |-> 1, successfulDeliveries |-> 1, avgRating |-> 50,
             avgTime |-> 10]) }
CurrentOrders == {0, 1, 4}
LastSeens == {NotGiven} \cup {Given(m) : m \in {5, 6, 30}}
Preferences == {"customer_preferred", "customer_blocked", "vendor_preferred", "none"}
Weathers == {"clear", "rain", "snow"}
Traffics == {"light", "heavy"}
Hours == 0..23

\* a caller runs calculateDriverScore (lines 18-38) on one driver
ScoreCall(distance, performance, currentOrders, active, lastSeen, preference, weather, traffic, hour) ==
    /\ ~lastScore.done
    /\ LET sub == SubScores(calculateDistanceScore(distance),
                            calculatePerformanceScore(performance),
                            calculateAvailabilityScore(currentOrders, active, lastSeen),
                            calculatePreferenceScore(preference),
                            calculateRealtimeScore(weather, traffic, hour))
       IN  lastScore' = [done |-> TRUE, sub |-> sub,
                         matchScore |-> calculateDriverScore(sub)]
    /\ UNCHANGED <<matched>>
    /\ UNCHANGED nonMatchingVars

\* one call per behaviour, on any driver, order and context
NextScoring ==
    /\ ~lastScore.done
    /\ \E distance \in Distances, performance \in Performances,
          currentOrders \in CurrentOrders, active \in BOOLEAN, lastSeen \in LastSeens,
          preference \in Preferences, weather \in Weathers, traffic \in Traffics,
          hour \in Hours :
           ScoreCall(distance, performance, currentOrders, active, lastSeen, preference,
                     weather, traffic, hour)

(***************************************************************************)
(* Threat monitoring: EnhancedSecurityMonitoring of unnamed/part_001       *)
(***************************************************************************)
ThreatCallers == {"t1", "t2"}
ThreatUsers == {"u1"}

\* the flags of contextData that are set (the others are undefined)
ThreatContexts ==
    { {},
      {"multipleDevices"},
      {"rapidLocationChanges"},
      {"rapidLocationChanges", "automatedBehaviorDetected"},
      {"rapidLocationChanges", "excessiveFailedLogins", "multipleDevices"},
      {"rapidLocationChanges", "excessiveFailedLogins", "automatedBehaviorDetected"} }

\* new Date().getHours() in the time zone of the server
LocalHours == {3, 12}

\* what AIFraudDetection.checkBehaviorPatterns resolves to
BehaviorScores == {0, 5}

flagged(ctx, flag, points) == IF flag \in ctx THEN points ELSE 0

\* addActivityToPattern on the activities of one user (lines 40-50)
addActivityToPattern(userActivities, activity, t) ==
    LET pushed == Append(userActivities, [activity |-> activity, timestamp |-> t])
    IN  IF Len(pushed) > 200
        THEN SubSeq(pushed, Len(pushed) - 100 + 1, Len(pushed))
        ELSE pushed

\* analyzeSessionBehavior (lines 90-106)
analyzeSessionBehavior(ctx) ==
    flagged(ctx, "multipleDevices", 20) + flagged(ctx, "rapidLocationChanges", 30)
        + flagged(ctx, "unusualUserAgent", 15) + flagged(ctx, "excessiveFailedLogins", 25)

\* analyzeNetworkPatterns (lines 108-125); no client address is in
\* AdvancedSecurityManager.suspiciousIPs
analyzeNetworkPatterns(ctx, malicious) ==
    (IF malicious THEN 60 ELSE 0)
        + flagged(ctx, "vpnDetected", 10) + flagged(ctx, "torDetected", 35)

\* hasRapidActionPattern (lines 170-186)
hasRapidActionPattern(pattern, activity, t) ==
    IF Len(pattern) < 5
    THEN FALSE
    ELSE LET oneMinuteAgo == t - 60000
             recentSpecificActions ==
                 SelectSeq(pattern, LAMBDA entry :
                     entry.activity = activity /\ entry.timestamp > oneMinuteAgo)
             recentTotalActions ==
                 SelectSeq(pattern, LAMBDA entry : entry.timestamp > oneMinuteAgo)
         IN  Len(recentSpecificActions) > 5 \/ Len(recentTotalActions) > 15

\* analyzeTemporalPatterns (lines 126-141)
analyzeTemporalPatterns(pattern, activity, hour, t) ==
    (IF hour >= 0 /\ hour <= 5 THEN 15 ELSE 0)
        + (IF hasRapidActionPattern(pattern, activity, t) THEN 25 ELSE 0)

\* analyzeBehaviorAnomalies (lines 143-157); aiBehaviorScore * 0.8 is a whole
\* number for the scores of BehaviorScores
analyzeBehaviorAnomalies(ctx, aiBehaviorScore) ==
    (aiBehaviorScore * 8) \div 10
        + flagged(ctx, "automatedBehaviorDetected", 40)
        + flagged(ctx, "unusualTransactionPattern", 30)

\* calculateThreatScore (lines 52-88)
calculateThreatScore(pattern, activity, ctx, hour, malicious, aiBehaviorScore, t) ==
    LET score == analyzeSessionBehavior(ctx) + analyzeNetworkPatterns(ctx, malicious)
                     + analyzeTemporalPatterns(pattern, activity, hour, t)
                     + analyzeBehaviorAnomalies(ctx, aiBehaviorScore)
    IN  IF score < 100 THEN score ELSE 100

NoUserDoc == [securityFlag |-> "none", suspended |-> FALSE, threatScore |-> 0]

NoMetrics == [totalThreats |-> 0, blockedAttempts |-> 0, fraudScoreTotal |-> 0,
              lastThreatDetected |-> -1, highThreats |-> 0, mediumThreats |-> 0,
              lowThreats |-> 0]

\* updateSecurityMetrics (lines 252-261)
updateSecurityMetrics(counters, threatScore, t) ==
    LET counted == [counters EXCEPT !.totalThreats = @ + 1,
                                    !.fraudScoreTotal = @ + threatScore]
    IN  IF threatScore >= 50
        THEN [counted EXCEPT !.blockedAttempts = @ + 1, !.lastThreatDetected = t]
        ELSE counted

IdleDetect == [pc |-> "idle", user |-> "-", activity |-> "-", ctx |-> {}, score |-> 0,
               update |-> "none", suspended |-> FALSE, incident |-> "none"]

NoDetect == [done |-> FALSE, call |-> IdleDetect, counted |-> "none"]

QuietThreat ==
    /\ suspiciousPatterns = [u \in ThreatUsers |-> << >>]
    /\ securityMetrics = NoMetrics
    /\ userDocs = [u \in ThreatUsers |-> NoUserDoc]
    /\ securityIncidents = << >>
    /\ detect = [c \in ThreatCallers |-> IdleDetect]
    /\ lastDetect = NoDetect

nonThreatVars == <<now, breakerVars, resourceVars, schedulerVars, cacheVars, spatialVars,
                   adaptiveVars, dispatchVars, matchingVars, ttlVars, meterVars, monitorVars>>

\* detectAdvancedThreats up to its first await (lines 20-23, 52-56)
DetectCall(c, u, activity, ctx) ==
    /\ detect[c].pc = "idle"
    /\ securityMetrics.totalThreats
           + Cardinality({d \in ThreatCallers : detect[d].pc # "idle"}) < MaxDetectCalls
    /\ suspiciousPatterns' =
           [suspiciousPatterns EXCEPT ![u] = addActivityToPattern(@, activity, now)]
    /\ detect' = [detect EXCEPT ![c] =
                     [IdleDetect EXCEPT !.pc = "scoring", !.user = u,
                                        !.activity = activity, !.ctx = ctx]]
    /\ lastDetect' = NoDetect
    /\ UNCHANGED <<securityMetrics, userDocs, securityIncidents>>
    /\ UNCHANGED nonThreatVars

\* the sub-scores resolve and the audit record is written (lines 56-87)
ScoreResolves(c, hour, malicious, aiBehaviorScore) ==
    /\ detect[c].pc = "scoring"
    /\ detect' = [detect EXCEPT ![c].pc = "scored",
                                ![c].score =
                                    calculateThreatScore(suspiciousPatterns[detect[c].user],
                                                         detect[c].activity, detect[c].ctx,
                                                         hour, malicious, aiBehaviorScore,
                                                         now)]
    /\ lastDetect' = NoDetect
    /\ UNCHANGED <<suspiciousPatterns, securityMetrics, userDocs, securityIncidents>>
    /\ UNCHANGED nonThreatVars

\* the end of detectAdvancedThreats: the counter of the band, then
\* updateSecurityMetrics, which runs to its end without suspending (lines 27-37)
finishDetect(c, counted) ==
    /\ securityMetrics' =
           updateSecurityMetrics(
               IF counted = "high" THEN [securityMetrics EXCEPT !.highThreats = @ + 1]
               ELSE IF counted = "medium"
                    THEN [securityMetrics EXCEPT !.mediumThreats = @ + 1]
               ELSE IF counted = "low" THEN [securityMetrics EXCEPT !.lowThreats = @ + 1]
               ELSE securityMetrics,
               detect[c].score, now)
    /\ lastDetect' = [done |-> TRUE, call |-> detect[c], counted |-> counted]
    /\ detect' = [detect EXCEPT ![c] = IdleDetect]

\* the branch on threatScore (lines 25-33): the handlers start with a write
BandChosen(c) ==
    /\ detect[c].pc = "scored"
    /\ IF detect[c].score >= 75
       THEN /\ detect' = [detect EXCEPT ![c].pc = "flagging"]
            /\ lastDetect' = NoDetect
            /\ UNCHANGED securityMetrics
       ELSE IF detect[c].score >= 50
       THEN /\ detect' = [detect EXCEPT ![c].pc = "recording"]
            /\ lastDetect' = NoDetect
            /\ UNCHANGED securityMetrics
       ELSE finishDetect(c, IF detect[c].score >= 30 THEN "low" ELSE "none")
    /\ UNCHANGED <<suspiciousPatterns, userDocs, securityIncidents>>
    /\ UNCHANGED nonThreatVars

\* handleHighThreatActivity: the update of the user document (lines 198-205)
UserFlagged(c) ==
    /\ detect[c].pc = "flagging"
    /\ userDocs' = [userDocs EXCEPT ![detect[c].user] =
                       [securityFlag |-> "HIGH_THREAT",
                        suspended |-> detect[c].score > 95,
                        threatScore |-> detect[c].score]]
    /\ detect' = [detect EXCEPT ![c].pc = "recording", ![c].update = "HIGH_THREAT",
                                ![c].suspended = detect[c].score > 95]
    /\ lastDetect' = NoDetect
    /\ UNCHANGED <<suspiciousPatterns, securityMetrics, securityIncidents>>
    /\ UNCHANGED nonThreatVars

\* security_incidents.add of handleHighThreatActivity (lines 207-215) and of
\* handleMediumThreatActivity (lines 232-240)
IncidentAdded(c) ==
    /\ detect[c].pc = "recording"
    /\ LET severity == IF detect[c].score >= 75 THEN "HIGH" ELSE "MEDIUM"
       IN  /\ securityIncidents' =
                  Append(securityIncidents,
                         [userId |-> detect[c].user, threatScore |-> detect[c].score,
                          severity |-> severity])
           /\ detect' = [detect EXCEPT ![c].pc = "notifying", ![c].incident = severity]
    /\ lastDetect' = NoDetect
    /\ UNCHANGED <<suspiciousPatterns, securityMetrics, userDocs>>
    /\ UNCHANGED nonThreatVars

\* the audit record and the notification settle; the handler returns
\* (lines 217-229, 242-249, 27-37)
HandlerReturns(c) ==
    /\ detect[c].pc = "notifying"
    /\ finishDetect(c, IF detect[c].score >= 75 THEN "high" ELSE "medium")
    /\ UNCHANGED <<suspiciousPatterns, userDocs, securityIncidents>>
    /\ UNCHANGED nonThreatVars

NextThreat ==
    \/ \E c \in ThreatCallers, u \in ThreatUsers, ctx \in ThreatContexts :
          DetectCall(c, u, "dispatch_order", ctx)
    \/ \E c \in ThreatCallers, hour \in LocalHours, malicious \in BOOLEAN,
          aiBehaviorScore \in BehaviorScores :
          ScoreResolves(c, hour, malicious, aiBehaviorScore)
    \/ \E c \in ThreatCallers : BandChosen(c)
    \/ \E c \in ThreatCallers : UserFlagged(c)
    \/ \E c \in ThreatCallers : IncidentAdded(c)
    \/ \E c \in ThreatCallers : HandlerReturns(c)

(***************************************************************************)
(* The optimal TTL on its own: calculateOptimalTTL of                      *)
(* 026-advanced-cache-manager.js on the logs a key can have                *)
(***************************************************************************)
OneHour == 60 * 60 * 1000

\* an access log: `old` accesses two hours before t, then `recent` ones a minute
\* before t
accessLog(old, recent, t) ==
    [i \in 1..(old + recent) |-> IF i <= old THEN t - 2 * OneHour ELSE t - 60000]

\* the numbers of old and of recent accesses of the logs of the model
OldAccesses == {0, 3, 40}
RecentAccesses == {1, 4, 5, 20, 21, 50, 51, 60}

\* the hit statistics of the model: every key whose TTL is computed has a miss
HitStats ==
    { [hits |-> 0, total |-> 1], [hits |-> 9, total |-> 10], [hits |-> 10, total |-> 11],
      [hits |-> 18, total |-> 20], [hits |-> 19, total |-> 20], [hits |-> 6, total |-> 20],
      [hits |-> 5, total |-> 20], [hits |-> 3, total |-> 11] }

\* the baseMinutes the callers pass: the default, the defaultTTL values of
\* preloadCriticalData (lines 90-93) and others
TtlBases == {1, 5, 15, 30, 60, 120} \cup (1..MaxTtlBase)

NoTtl == [done |-> FALSE, key |-> "-", baseMinutes |-> 0, at |-> 0, result |-> 0]

QuietTtl == lastTtl = NoTtl

\* the adaptive cache after a history of calls: some log and some statistics per key
InitTtl ==
    /\ accessPatterns \in [SmartKeys -> { accessLog(old, recent, 2 * OneHour) :
                                            old \in OldAccesses, recent \in RecentAccesses }]
    /\ hitRates \in [SmartKeys -> HitStats]
    /\ smart = [c \in SmartCallers |-> IdleSmart]
    /\ lastDone = [k \in SmartKeys |-> NoDone]
    /\ smartCalls = 0

\* a caller runs calculateOptimalTTL (lines 57-87)
OptimalTtlCall(key, baseMinutes) ==
    /\ lastTtl' = [done |-> TRUE, key |-> key, baseMinutes |-> baseMinutes, at |-> now,
                   result |-> calculateOptimalTTL(accessPatterns[key], hitRates[key],
                                                  baseMinutes, now)]
    /\ UNCHANGED <<now, breakerVars, resourceVars, schedulerVars, cacheVars, spatialVars,
                   adaptiveVars, dispatchVars, matchingVars, threatVars, meterVars,
                   monitorVars>>

NextTtl == \E key \in SmartKeys, baseMinutes \in TtlBases : OptimalTtlCall(key, baseMinutes)

(***************************************************************************)
(* The bounded logs: recordAccess of 026-advanced-cache-manager.js,        *)
(* addActivityToPattern of unnamed/part_001 and recordMetric of            *)
(* 027-performance-monitor.js                                              *)
(***************************************************************************)
MetricNames == {"dispatch"}

\* a metric series that keeps its oldest entries
recordMetric_KeepOldest(functionMetrics, metric) ==
    LET pushed == Append(functionMetrics, metric)
    IN  IF Len(pushed) > 200 THEN SubSeq(pushed, 1, 100) ELSE pushed

\* recordMetric on the series of one function (lines 69-80)
recordMetric(functionMetrics, metric) ==
    LET pushed == Append(functionMetrics, metric)
    IN  IF Len(pushed) > 200
        THEN SubSeq(pushed, Len(pushed) - 100 + 1, Len(pushed))
        ELSE pushed

\* the metric trackFunction records for an execution that ended at t
Metric(success, t) == [executionTime |-> 0, success |-> success, timestamp |-> t]

\* the lengths of the logs at the start of the model: empty, below and at the
\* trim thresholds
LogFills == {0, 99, 100, 199, 200}

\* the instant of the appends of the model; the entries before are older
LogStart == 1000

NoAppend == [done |-> FALSE, log |-> "-", before |-> << >>, entry |-> << >>,
             after |-> << >>, count |-> 0]

QuietMeter ==
    /\ metrics = [f \in MetricNames |-> << >>]
    /\ lastAppend = NoAppend

\* the logs after a history of appends, one entry per millisecond
InitLogs ==
    /\ accessPatterns \in [SmartKeys -> { [i \in 1..n |-> i] : n \in LogFills }]
    /\ suspiciousPatterns \in
           [ThreatUsers -> { [i \in 1..n |-> [activity |-> "dispatch_order", timestamp |-> i]] :
                               n \in LogFills }]
    /\ metrics \in [MetricNames -> { [i \in 1..n |-> Metric(TRUE, i)] : n \in LogFills }]
    /\ lastAppend = NoAppend

nonLogVars == <<now, breakerVars, resourceVars, schedulerVars, cacheVars, spatialVars,
                dispatchVars, matchingVars, ttlVars, monitorVars>>

\* recordAccess(key) (026-advanced-cache-manager.js, lines 28-39)
AccessRecorded(key) ==
    /\ lastAppend.count < MaxLogAppends
    /\ accessPatterns' = [accessPatterns EXCEPT ![key] = recordAccess(@, now)]
    /\ lastAppend' = [done |-> TRUE, log |-> "access", before |-> accessPatterns[key],
                      entry |-> <<now>>,
                      after |-> accessPatterns'[key], count |-> lastAppend.count + 1]
    /\ UNCHANGED <<hitRates, smart, lastDone, smartCalls, threatVars, metrics>>
    /\ UNCHANGED nonLogVars

\* addActivityToPattern(userId, activity) (unnamed/part_001, lines 40-50)
ActivityAdded(userId, activity) ==
    /\ lastAppend.count < MaxLogAppends
    /\ suspiciousPatterns' =
           [suspiciousPatterns EXCEPT ![userId] = addActivityToPattern(@, activity, now)]
    /\ lastAppend' = [done |-> TRUE, log |-> "activity", before |-> suspiciousPatterns[userId],
                      entry |-> <<[activity |-> activity, timestamp |-> now]>>,
                      after |-> suspiciousPatterns'[userId], count |-> lastAppend.count + 1]
    /\ UNCHANGED <<securityMetrics, userDocs, securityIncidents, detect, lastDetect>>
    /\ UNCHANGED <<adaptiveVars, metrics>>
    /\ UNCHANGED nonLogVars

\* recordMetric(functionName, metric) (027-performance-monitor.js, lines 69-80)
MetricRecorded(functionName, success) ==
    /\ lastAppend.count < MaxLogAppends
    /\ metrics' = [metrics EXCEPT ![functionName] = recordMetric(@, Metric(success, now))]
    /\ lastAppend' = [done |-> TRUE, log |-> "metric", before |-> metrics[functionName],
                      entry |-> <<Metric(success, now)>>,
                      after |-> metrics'[functionName], count |-> lastAppend.count + 1]
    /\ UNCHANGED <<adaptiveVars, threatVars>>
    /\ UNCHANGED nonLogVars

NextLogs ==
    \/ \E key \in SmartKeys : AccessRecorded(key)
    \/ \E userId \in ThreatUsers : ActivityAdded(userId, "dispatch_order")
    \/ \E functionName \in MetricNames, success \in BOOLEAN :
          MetricRecorded(functionName, success)

(***************************************************************************)
(* PerformanceMonitor.trackFunction and generateAlert:                     *)
(* 027-performance-monitor.js, lines 16-109                                *)
(***************************************************************************)
Trackers == {"m1", "m2"}

\* thresholds.responseTime (line 10), ms
responseTimeThreshold == 5000

\* what the history keeps of a metric: its success flag
IdleTrack == [pc |-> "idle", functionName |-> "-", startTime |-> 0, recorded |-> << >>,
              memoryHigh |-> FALSE]

NoTrack == [done |-> FALSE, caller |-> "-", fn |-> "none", outcome |-> "none",
            recorded |-> << >>]

QuietMonitor ==
    /\ track = [c \in Trackers |-> IdleTrack]
    /\ alerts = << >>
    /\ lastTrack = NoTrack

nonMonitorVars == <<breakerVars, resourceVars, schedulerVars, cacheVars, spatialVars,
                    adaptiveVars, dispatchVars, matchingVars, threatVars, ttlVars>>

\* generateAlert up to its await (lines 83-97): push, trim
pushAlert(list, type, functionName, t) ==
    LET pushed == Append(list, [type |-> type, functionName |-> functionName,
                                timestamp |-> t])
    IN  IF Len(pushed) > 100 THEN SubSeq(pushed, 50 + 1, Len(pushed)) ELSE pushed

\* the call settles: it returns the result of executionFunction ("returned"), or
\* throws the error of executionFunction ("threw_fn") or another one
settle(c, fn, outcome, recorded) ==
    /\ track' = [track EXCEPT ![c] = IdleTrack]
    /\ lastTrack' = [done |-> TRUE, caller |-> c, fn |-> fn, outcome |-> outcome,
                     recorded |-> recorded]

\* trackFunction up to await executionFunction() (lines 16-24)
TrackCall(c, functionName) ==
    /\ track[c].pc = "idle"
    /\ Len(metrics[functionName])
         + Cardinality({x \in Trackers : track[x].pc # "idle"}) < MaxTrackCalls
    /\ track' = [track EXCEPT ![c] = [IdleTrack EXCEPT !.pc = "executing",
                                                       !.functionName = functionName,
                                                       !.startTime = now]]
    /\ UNCHANGED <<now, metrics, lastAppend, alerts, lastTrack>>
    /\ UNCHANGED nonMonitorVars

\* executionFunction resolves (lines 26-53): the metric is recorded; above a
\* threshold generateAlert runs up to its await, otherwise the result is returned
FunctionResolves(c, memoryHigh) ==
    /\ track[c].pc = "executing"
    /\ LET functionName == track[c].functionName
           executionTime == now - track[c].startTime
           recorded == Append(track[c].recorded, TRUE)
       IN  /\ metrics' = [metrics EXCEPT ![functionName] = recordMetric(@, Metric(TRUE, now))]
           /\ IF executionTime > responseTimeThreshold
              THEN /\ alerts' = pushAlert(alerts, "SLOW_EXECUTION", functionName, now)
                   /\ track' = [track EXCEPT ![c].pc = "alert_slow",
                                             ![c].recorded = recorded,
                                             ![c].memoryHigh = memoryHigh]
                   /\ UNCHANGED lastTrack
              ELSE IF memoryHigh
                   THEN /\ alerts' = pushAlert(alerts, "HIGH_MEMORY_USAGE", functionName, now)
                        /\ track' = [track EXCEPT ![c].pc = "alert_memory",
                                                  ![c].recorded = recorded,
                                                  ![c].memoryHigh = memoryHigh]
                        /\ UNCHANGED lastTrack
                   ELSE /\ settle(c, "resolved", "returned", recorded)
                        /\ UNCHANGED alerts
    /\ UNCHANGED <<now, lastAppend>>
    /\ UNCHANGED nonMonitorVars

\* performance_alerts.add(alert) resolves (lines 97-109): the notification is sent
\* without being awaited, its failure is caught (line 107); back in trackFunction
\* the next test runs (lines 46-53)
AlertPersisted(c) ==
    /\ track[c].pc \in {"alert_slow", "alert_memory"}
    /\ IF track[c].pc = "alert_slow" /\ track[c].memoryHigh
       THEN /\ alerts' = pushAlert(alerts, "HIGH_MEMORY_USAGE", track[c].functionName, now)
            /\ track' = [track EXCEPT ![c].pc = "alert_memory"]
            /\ UNCHANGED lastTrack
       ELSE /\ settle(c, "resolved", "returned", track[c].recorded)
            /\ UNCHANGED alerts
    /\ UNCHANGED <<now, metrics, lastAppend>>
    /\ UNCHANGED nonMonitorVars

\* performance_alerts.add(alert) rejects: generateAlert rejects inside the try
\* block of trackFunction, whose catch records a metric and rethrows (lines 55-66)
AlertPersistFails(c) ==
    /\ track[c].pc \in {"alert_slow", "alert_memory"}
    /\ metrics' = [metrics EXCEPT ![track[c].functionName] =
                                      recordMetric(@, Metric(FALSE, now))]
    /\ settle(c, "resolved", "threw_alert_error", Append(track[c].recorded, FALSE))
    /\ UNCHANGED <<now, lastAppend, alerts>>
    /\ UNCHANGED nonMonitorVars

\* executionFunction rejects (lines 55-66): the metric is recorded, the error rethrown
FunctionRejects(c) ==
    /\ track[c].pc = "executing"
    /\ metrics' = [metrics EXCEPT ![track[c].functionName] =
                                      recordMetric(@, Metric(FALSE, now))]
    /\ settle(c, "rejected", "threw_fn", Append(track[c].recorded, FALSE))
    /\ UNCHANGED <<now, lastAppend, alerts>>
    /\ UNCHANGED nonMonitorVars

\* the clock: Date.now() advances
TickMonitor ==
    /\ now < MaxMonitorTime
    /\ now' = now + 3000
    /\ UNCHANGED <<metrics, lastAppend, monitorVars>>
    /\ UNCHANGED nonMonitorVars

NextMonitor ==
    \/ \E c \in Trackers, functionName \in MetricNames : TrackCall(c, functionName)
    \/ \E c \in Trackers, memoryHigh \in BOOLEAN : FunctionResolves(c, memoryHigh)
    \/ \E c \in Trackers : AlertPersisted(c)
    \/ \E c \in Trackers : AlertPersistFails(c)
    \/ \E c \in Trackers : FunctionRejects(c)
    \/ TickMonitor

QuietUtility ==
    /\ QuietMatching
    /\ QuietThreat
    /\ QuietTtl
    /\ QuietMeter
    /\ QuietMonitor

(***************************************************************************)
(* The specifications: one per subsystem, the others idle.                 *)
(***************************************************************************)
InitBreakerSpec ==
    now = 0 /\ InitBreaker /\ QuietResource /\ QuietScheduler /\ QuietCache /\ QuietSpatial
        /\ QuietAdaptive /\ QuietDispatch /\ QuietUtility

SpecBreaker == InitBreakerSpec /\ [][NextBreaker]_vars

InitResourceSpec ==
    now = 0 /\ QuietBreaker /\ QuietResource /\ QuietScheduler /\ QuietCache /\ QuietSpatial
        /\ QuietAdaptive /\ QuietDispatch /\ QuietUtility

SpecResource == InitResourceSpec /\ [][NextResource]_vars

InitSchedulerSpec ==
    now = 0 /\ QuietBreaker /\ QuietResource /\ InitScheduler /\ QuietCache /\ QuietSpatial
        /\ QuietAdaptive /\ QuietDispatch /\ QuietUtility

SpecScheduler == InitSchedulerSpec /\ [][NextScheduler]_vars

\* the scheduler with job functions that resolve: no failure, no timeout
NextOrdering ==
    \/ \E j \in JobIds, s \in ScheduleArgs, p \in PriorityArgs, d \in TimeoutArgs :
          scheduleJob(j, s, p, NotGiven, d)
    \/ processJobQueue
    \/ \E o \in ObjIds : JobSucceeds(o)
    \/ TickScheduler

SpecOrdering == InitSchedulerSpec /\ [][NextOrdering]_vars

\* the scheduler with every outcome of a job function, for jobs of normal
\* priority and maxRetries 2
NextConcurrency ==
    \/ \E j \in JobIds, s \in ScheduleArgs, d \in TimeoutArgs :
          scheduleJob(j, s, "normal", Given(2), d)
    \/ processJobQueue
    \/ \E o \in ObjIds : JobSucceeds(o)
    \/ \E o \in ObjIds : JobThrows(o)
    \/ \E o \in ObjIds : ErrorLogged(o)
    \/ \E o \in ObjIds : JobTimesOut(o)
    \/ \E o \in ObjIds : AbandonedFunctionSettles(o)
    \/ TickScheduler

SpecConcurrency == InitSchedulerSpec /\ [][NextConcurrency]_vars

InitSystemJobsSpec ==
    now = SchedulerStart /\ QuietBreaker /\ QuietResource /\ InitSystemJobs /\ QuietCache
        /\ QuietSpatial /\ QuietAdaptive /\ QuietDispatch /\ QuietUtility

SpecSystemJobs == InitSystemJobsSpec /\ [][NextSystemJobs]_vars

InitCacheSpec ==
    now = 0 /\ QuietBreaker /\ QuietResource /\ QuietScheduler /\ QuietCache /\ QuietSpatial
        /\ QuietAdaptive /\ QuietDispatch /\ QuietUtility

SpecCache == InitCacheSpec /\ [][NextCache]_vars

InitSpatialSpec ==
    now = 0 /\ QuietBreaker /\ QuietResource /\ QuietScheduler /\ QuietCache /\ QuietSpatial
        /\ QuietAdaptive /\ QuietDispatch /\ QuietUtility

SpecSpatial == InitSpatialSpec /\ [][NextSpatial]_vars

SpecSearch == InitSpatialSpec /\ [][NextSearch]_vars

InitAdaptiveSpec ==
    now = 0 /\ QuietBreaker /\ QuietResource /\ QuietScheduler /\ QuietCache /\ QuietSpatial
        /\ QuietAdaptive /\ QuietDispatch /\ QuietUtility

SpecAdaptive == InitAdaptiveSpec /\ [][NextAdaptive]_vars

InitDispatchSpec ==
    now = 0 /\ InitDispatch /\ QuietResource /\ QuietScheduler /\ QuietCache /\ QuietSpatial
        /\ QuietAdaptive /\ QuietDispatch /\ QuietUtility

SpecDispatch == InitDispatchSpec /\ [][NextDispatch]_vars

InitAdmissionSpec ==
    now = 0 /\ QuietBreaker /\ QuietResource /\ QuietScheduler /\ QuietCache /\ QuietSpatial
        /\ QuietAdaptive /\ InitAdmission /\ QuietUtility

SpecAdmission == InitAdmissionSpec /\ [][NextAdmission]_vars

InitMatchingSpec ==
    now = 0 /\ QuietBreaker /\ QuietResource /\ QuietScheduler /\ QuietCache /\ QuietSpatial
        /\ QuietAdaptive /\ QuietDispatch /\ QuietUtility

SpecMatching == InitMatchingSpec /\ [][NextMatching]_vars

SpecScoring == InitMatchingSpec /\ [][NextScoring]_vars

InitThreatSpec ==
    now = 0 /\ QuietBreaker /\ QuietResource /\ QuietScheduler /\ QuietCache /\ QuietSpatial
        /\ QuietAdaptive /\ QuietDispatch /\ QuietUtility

SpecThreat == InitThreatSpec /\ [][NextThreat]_vars

InitTtlSpec ==
    now = 2 * OneHour /\ QuietBreaker /\ QuietResource /\ QuietScheduler /\ QuietCache
        /\ QuietSpatial /\ InitTtl /\ cache = [k \in CacheKeys |-> NoEntry]
        /\ QuietDispatch /\ QuietUtility

SpecTtl == InitTtlSpec /\ [][NextTtl]_vars

InitLogsSpec ==
    /\ now = LogStart
    /\ QuietBreaker /\ QuietResource /\ QuietScheduler /\ QuietCache /\ QuietSpatial
    /\ QuietDispatch /\ QuietMatching /\ QuietTtl /\ QuietMonitor
    /\ InitLogs
    /\ hitRates = [k \in SmartKeys |-> NoStats]
    /\ smart = [c \in SmartCallers |-> IdleSmart]
    /\ lastDone = [k \in SmartKeys |-> NoDone]
    /\ smartCalls = 0
    /\ securityMetrics = NoMetrics
    /\ userDocs = [u \in ThreatUsers |-> NoUserDoc]
    /\ securityIncidents = << >>
    /\ detect = [c \in ThreatCallers |-> IdleDetect]
    /\ lastDetect = NoDetect

SpecLogs == InitLogsSpec /\ [][NextLogs]_vars

InitMonitorSpec ==
    now = 0 /\ QuietBreaker /\ QuietResource /\ QuietScheduler /\ QuietCache /\ QuietSpatial
        /\ QuietAdaptive /\ QuietDispatch /\ QuietUtility

SpecMonitor == InitMonitorSpec /\ [][NextMonitor]_vars

(***************************************************************************)
(* Properties of the circuit breaker.                                      *)
(***************************************************************************)
NoRunInProgressOn(k) == \A c \in Callers : ~(InProgress(c) /\ run[c].key = k)

\* C1: for every breaker key, in every reachable state under a fixed maxFailures:
\* a breaker in state CLOSED has a failure count <= maxFailures.
C1_ClosedFailuresBounded ==
    \A k \in Keys :
        circuitBreakers[k].state = "CLOSED" => circuitBreakers[k].failures <= cfg.maxFailures

\* a CLOSED breaker one failure short of its threshold
C1_Witness ==
    \E k \in Keys :
        /\ circuitBreakers[k].state = "CLOSED"
        /\ circuitBreakers[k].failures = cfg.maxFailures - 1
        /\ circuitBreakers[k].failures >= 2

\* C7: a run call on a key whose breaker is OPEN with now <= resetAt fails at once with
\* CircuitOpen: the operation is not invoked, there is no attempt, retry or sleep, and
\* the breaker's state, failure count and resetAt are unchanged.
C7_OpenRejectsImmediately ==
    (lastStep.kind = "call" /\ lastStep.before.state = "OPEN"
                            /\ lastStep.at <= lastStep.before.resetTime)
    => /\ run[lastStep.caller].pc = "done"
       /\ run[lastStep.caller].result = "circuit_open"
       /\ run[lastStep.caller].calls = 0
       /\ run[lastStep.caller].attempt = 0
       /\ circuitBreakers[lastStep.key] = lastStep.before

\* a call made at the very instant resetAt, rejected
C7_Witness ==
    /\ lastStep.kind = "call"
    /\ lastStep.before.state = "OPEN"
    /\ lastStep.at = lastStep.before.resetTime
    /\ run[lastStep.caller].result = "circuit_open"

C10_ClosedCounting ==
    LET a == circuitBreakers[lastStep.key]
        b == lastStep.before
    IN  /\ (lastStep.kind = "failure" /\ b.state \in {"NONE", "CLOSED"})
           => /\ a.failures = b.failures + 1
              /\ (a.state = "OPEN") = (a.failures = cfg.maxFailures)
              /\ a.state = "OPEN" => a.resetTime = lastStep.at + cfg.resetTimeoutMs
              /\ a.state # "OPEN" => (a.state = "CLOSED" /\ a.resetTime = 0)
              /\ cfg.maxFailures = 1 => a.state = "OPEN"
        /\ (lastStep.kind = "success" /\ b.state = "CLOSED")
           => (a.state = "CLOSED" /\ a.failures = 0)
        /\ (lastStep.kind = "success" /\ b.state = "NONE") => a = b

\* the failure that makes the count reach a maxFailures of 3 opens the breaker
C10_Witness ==
    /\ lastStep.kind = "failure"
    /\ lastStep.before.state = "CLOSED"
    /\ lastStep.before.failures = 2
    /\ cfg.maxFailures = 3
    /\ circuitBreakers[lastStep.key].state = "OPEN"

(***************************************************************************)
(* Properties of the resource manager.                                     *)
(***************************************************************************)
\* the limit the configuration gives each resource type
ConfiguredLimit == [activeDispatch |-> resourceLimits.maxConcurrentDispatch,
                    memoryUsage |-> resourceLimits.maxMemoryUsage,
                    cpuUsage |-> resourceLimits.maxCPUUsage,
                    databaseConnections |-> resourceLimits.maxDatabaseConnections]

\* C2: for every resource type, in every reachable state under any interleaving of
\* acquire, release, withResources and the sampler: 0 <= current <= limit.
C2_UsageWithinLimit ==
    \A r \in ResourceTypes :
        0 <= resourceUsage[r] /\ resourceUsage[r] <= ConfiguredLimit[r]

RECURSIVE HeldAmount(_, _)
\* the units of resource type r among the handles `held`
HeldAmount(held, r) ==
    IF held = << >>
    THEN 0
    ELSE (IF Head(held).resourceType = r THEN Head(held).amount ELSE 0)
            + HeldAmount(Tail(held), r)

\* C11: when executeWithResourceManagement returns or throws (the operation succeeded
\* or threw, or a later acquire of the same call failed), every counter is lower than
\* just before by exactly the units the call had taken of it.
C11_GivesBackWhatItTook ==
    (lastOp.kind = "finally" \/ lastOp.result = "undefined_type")
    => \A r \in ResourceTypes :
          lastOp.after[r] = lastOp.before[r] - HeldAmount(lastOp.held, r)

\* C12: an acquire with current + n > limit fails with resource-exhausted and leaves
\* every counter unchanged; an acquire with current + n <= limit is granted and adds n
\* to its counter in the same step; the units tasks hold of one type never exceed
\* the limit of the type.
C12_AcquireAtomicOrExhausted ==
    /\ lastOp.kind = "acquire" =>
          LET r == lastOp.req.resourceType
              n == lastOp.req.amount
          IN  IF lastOp.before[r] + n > ConfiguredLimit[r]
              THEN lastOp.result = "over_limit" /\ lastOp.after = lastOp.before
              ELSE /\ lastOp.result = "granted"
                   /\ lastOp.after = [lastOp.before EXCEPT ![r] = @ + n]
    /\ \A t \in Tasks : task[t].outcome # "alert_error"
    /\ \A r \in ResourceTypes :
          HeldAmount(task["t1"].held, r) + HeldAmount(task["t2"].held, r)
              <= ConfiguredLimit[r]

(***************************************************************************)
(* Properties of the job scheduler.                                        *)
(***************************************************************************)
\* the job objects that are entries of the job table
JobsInTable == {o \in ObjIds : \E j \in JobIds : jobs[j] = o}

\* C3: for every job in every reachable state, whatever maxRetries option was given
\* (0 included) and whatever succeeded, failed or timed out: retryCount <= maxRetries.
C3_RetryCountBounded ==
    \A o \in JobsInTable : jobObjs[o].retryCount <= jobObjs[o].maxRetries

\* C4: a one-shot job whose run has ended in terminal completion (it succeeded, or it
\* failed or timed out with no retries remaining) is absent from the job table.
C4_OneShotRemoved ==
    \A o \in ObjIds :
        ( /\ jobObjs[o].schedule.type = "number"
          /\ jobObjs[o].exec = "none"
          /\ \/ jobObjs[o].status = "completed"
             \/ /\ jobObjs[o].status \in {"failed", "timeout"}
                /\ jobObjs[o].retryCount >= jobObjs[o].maxRetries )
        => o \notin JobsInTable

(***************************************************************************)
(* Properties of the cache.                                                *)
(***************************************************************************)
\* C5: for every key k: when the most recent set(k, v, ttl) happened at t0 and k was
\* not set again, a get(k) at a time now with now - t0 > ttl returns null.
C5_ExpiredGetReturnsNull ==
    (lastGet.done /\ lastSet[lastGet.key].done
        /\ lastGet.at - lastSet[lastGet.key].at
              > lastSet[lastGet.key].ttlMinutes * 60 * 1000)
    => lastGet.ret = "null"

\* a get on a key whose entry is still stored, later than its ttl after the set
C5_Witness ==
    /\ lastGet.done
    /\ lastSet[lastGet.key].done
    /\ cache[lastGet.key].present
    /\ lastGet.at - lastSet[lastGet.key].at
          > lastSet[lastGet.key].ttlMinutes * 60 * 1000
    /\ lastGet.ret = "null"

(***************************************************************************)
(* Properties of the adaptive cache.                                       *)
(***************************************************************************)
\* the call of c started right after a call on the same key had returned (none was
\* in progress), that call had invoked the fallback function, and the ttl it stored
\* had not elapsed
BackToBack(c) ==
    /\ smart[c].pc \in {"loading", "done"}
    /\ smart[c].prev.done
    /\ smart[c].prev.loaded
    /\ smart[c].startAt - smart[c].prev.setAt < smart[c].prev.ttlMinutes * 60 * 1000

\* C13: of two getWithSmartTTL(k, L, m) calls issued back-to-back (the second starts
\* after the first returned and before the stored ttl elapses) only the first invokes
\* L, and the second returns the value the first returned, whatever L returns.
C13_SecondCallServedFromCache ==
    \A c \in SmartCallers :
        BackToBack(c) => /\ ~smart[c].loaded
                         /\ smart[c].pc = "done"
                         /\ smart[c].ret = smart[c].prev.value

(***************************************************************************)
(* Properties of the spatial index.                                        *)
(***************************************************************************)
\* C6: at every time, after any sequence of updateSpatialIndex, cleanupOldIndexEntries
\* and clock advance, every driver held in a cell of the spatial index is active and
\* its last heartbeat is at most 10 minutes old.
C6_IndexedDriversAlive ==
    \A k \in DOMAIN spatialIndex :
        \A i \in 1..Len(spatialIndex[k]) :
            LET driver == spatialIndex[k][i]
            IN  /\ driver.active
                /\ driver.isActive
                /\ driver.lastSeenOnline # NoHeartbeat
                /\ now - driver.lastSeenOnline <= 10 * 60 * 1000


\* getDriversNearLocation ran right after updateSpatialIndex(S): the clock has not
\* advanced and the index was not cleared in between
NearAfterUpsert ==
    /\ lastNear.done
    /\ lastUpsert.done
    /\ lastUpsert.at = now

\* C14: updateSpatialIndex(S) immediately followed by getDriversNearLocation(lat,
\* lon, R) returns exactly the drivers of S within R miles that satisfy the
\* liveness predicate, each id once, in order of ascending distance, whatever the
\* index held before
C14_NearReturnsLiveWithinRadius ==
    NearAfterUpsert =>
        LET result == lastNear.result
            query == lastNear.query
            S == lastUpsert.drivers
            distanceTo(driver) ==
                distanceRadius(query.latitude, query.longitude,
                               driver.latitude, driver.longitude)
            live(driver) ==
                /\ driver.active
                /\ driver.isActive
                /\ driver.lastSeenOnline # NoHeartbeat
                /\ lastUpsert.at - driver.lastSeenOnline <= 10 * 60 * 1000
        IN  /\ \A i, j \in 1..Len(result) :
                   result[i].driver.id = result[j].driver.id => i = j
            /\ {result[i].driver : i \in 1..Len(result)}
                   = {driver \in {S[i] : i \in 1..Len(S)} :
                         live(driver) /\ distanceTo(driver) <= query.radiusMiles}
            /\ \A i \in 1..Len(result) :
                   result[i].distance = distanceTo(result[i].driver)
            /\ \A i, j \in 1..Len(result) :
                   i < j => result[i].distance <= result[j].distance


\* the drivers held by an index, each with the key of its cell
HeldIn(index) ==
    UNION {{<<k, index[k][i]>> : i \in 1..Len(index[k])} : k \in DOMAIN index}

\* the instants of the clock from t on
ClockSince(t) ==
    {u \in {n * (5 * 60 * 1000) : n \in 0..(now \div (5 * 60 * 1000))} : u >= t}

\* C15: under any interleaving of updateSpatialIndex, cleanupOldIndexEntries and
\* getDriversNearLocation, a query evaluates against a complete index: the index
\* holds, cell by cell, every driver of the list of the last updateSpatialIndex that
\* passed its tests and those of a later cleanup, no driver of an earlier list, and
\* no empty cell; the query returns what that index gives.
C15_NearSeesCompleteIndex ==
    /\ \E cleanedAt \in ClockSince(lastUpsert.at) :
           HeldIn(spatialIndex)
               = {<<getGridKey(driver.latitude, driver.longitude), driver>> :
                     driver \in {d \in {lastUpsert.drivers[i] :
                                           i \in 1..Len(lastUpsert.drivers)} :
                                    /\ d.latitude # 0
                                    /\ d.longitude # 0
                                    /\ recentlySeen(d, lastUpsert.at)
                                    /\ stillActive(d, cleanedAt)}}
    /\ \A k \in DOMAIN spatialIndex : spatialIndex[k] # << >>
    /\ lastNear.done =>
           lastNear.result = getDriversNearLocation(spatialIndex, lastNear.query)

\* a query that returns two drivers from an index of two cells, built by an
\* updateSpatialIndex that ran after the clock had advanced
C15_Witness ==
    /\ lastNear.done
    /\ Len(lastNear.result) = 2
    /\ Cardinality(DOMAIN spatialIndex) = 2
    /\ lastUpsert.at > 0


(***************************************************************************)
(* Properties of the order of dispatch.                                    *)
(***************************************************************************)
\* the job functions executing: those raced against their timer and those that
\* lost the race and have not settled
FunctionsExecuting ==
    Cardinality({o \in ObjIds : jobObjs[o].exec = "running"}) + Cardinality(abandoned)

\* a is ordered before b: higher priority, or the same priority and an earlier
\* nextRun
OrderedBefore(a, b) ==
    LET rank(p) == IF p = "high" THEN 0 ELSE IF p = "normal" THEN 1 ELSE 2
    IN  \/ rank(a.priority) < rank(b.priority)
        \/ rank(a.priority) = rank(b.priority) /\ a.nextRun < b.nextRun

\* C16: with maxConcurrentJobs = 1 execution is strictly sequential: no job function
\* starts while another dispatched job function is still executing (so at most one
\* executes at any time), and a processJobQueue starts the ready job that is first
\* in (priority, nextRun) order.
C16_SequentialWithOneSlot ==
    maxConcurrentJobs = 1 =>
        /\ FunctionsExecuting <= 1
        /\ lastTick.done =>
               /\ Len(lastTick.started) = 1
               /\ \A r \in lastTick.ready : ~OrderedBefore(r, lastTick.started[1])

\* C17: within one processJobQueue the ready jobs are dispatched by priority (high,
\* normal, low) and, for equal priority, by earlier nextRun; a job is dispatched only
\* if every ready job ordered before it was dispatched by the same processJobQueue.
C17_DispatchInPriorityOrder ==
    lastTick.done =>
        /\ \A i, j \in 1..Len(lastTick.started) :
               i < j => ~OrderedBefore(lastTick.started[j], lastTick.started[i])
        /\ \A i \in 1..Len(lastTick.started) :
               \A r \in lastTick.ready :
                   OrderedBefore(r, lastTick.started[i])
                       => \E j \in 1..(i - 1) : lastTick.started[j] = r

\* a processJobQueue that dispatched a high job before a low one that had the
\* earlier nextRun
C17_Witness ==
    /\ lastTick.done
    /\ Len(lastTick.started) = 2
    /\ lastTick.started[1].priority = "high"
    /\ lastTick.started[2].priority = "low"
    /\ lastTick.started[2].nextRun < lastTick.started[1].nextRun


(***************************************************************************)
(* Properties of the retries of a failing job.                             *)
(***************************************************************************)
\* C18: a one-shot job with maxRetries = 2 whose function always throws is executed
\* three times: after failure 1 retryCount = 1 and nextRun = now + 30 s; after
\* failure 2 retryCount = 2, nextRun = now + 60 s and the job is still in the table
\* awaiting another run; after failure 3 the job is terminal (removed once the
\* critical action is logged).
C18_ThreeExecutionsOnTwoRetries ==
    (/\ lastFailure.done
     /\ jobObjs[lastFailure.obj].schedule.type = "number"
     /\ jobObjs[lastFailure.obj].maxRetries = 2)
    => LET job == jobObjs[lastFailure.obj]
           awaitsRun == /\ jobs[job.id] = lastFailure.obj
                        /\ job.status = "scheduled"
                        /\ job.retryCount = lastFailure.failures
                        /\ job.nextRun = lastFailure.at + lastFailure.failures * 30000
       IN  /\ lastFailure.failures = 1 => awaitsRun
           /\ lastFailure.failures = 2 => awaitsRun
           /\ lastFailure.failures = 3 =>
                  /\ job.status = "failed"
                  /\ job.exec = "logging"


(***************************************************************************)
(* Properties of the retry loop.                                           *)
(***************************************************************************)
\* C19: when the wrapped operation fails with Unauthenticated, PermissionDenied,
\* InvalidArgument, NotFound or CircuitOpen, the call rethrows the error right
\* after the first attempt, with no further attempt and no delay; only other errors
\* are retried, up to retryAttempts.
C19_NonRetryableRethrownAtOnce ==
    (lastStep.kind = "failure" /\ run[lastStep.caller].attempt = 1)
    => IF lastStep.error \in {"unauthenticated", "permission-denied", "invalid-argument",
                              "not-found", "circuit-open"}
       THEN /\ run[lastStep.caller].pc = "done"
            /\ run[lastStep.caller].result = "error"
       ELSE cfg.retryAttempts > 1 => run[lastStep.caller].pc = "sleep"


(***************************************************************************)
(* Properties of the dispatch entry point.                                 *)
(***************************************************************************)
\* C20: dispatchOrder runs under the circuit breaker of (dispatch, order.vendorID):
\* a call of a validated user, made and finished while that breaker is OPEN and not
\* past its reset time, fails with the circuit-open error, surfaced as such and not
\* as the generic internal failure, and no driver search takes place.
C20_OpenCircuitSurfaced ==
    \A d \in DispatchRequests :
        LET b == circuitBreakers[DispatchBreakerKey]
        IN  (/\ dispatch[d].validated
             /\ dispatch[d].resetAtCall >= 0
             /\ b.state = "OPEN"
             /\ b.resetTime = dispatch[d].resetAtCall
             /\ now <= b.resetTime)
            => /\ dispatch[d].pc # "searching"
               /\ dispatch[d].pc = "done" => dispatch[d].result = "circuit-open"

(***************************************************************************)
(* The ranking of the candidates                                           *)
(***************************************************************************)
\* the position of driver id in a list (0: not in it)
PositionOf(l, id) ==
    IF \E i \in 1..Len(l) : l[i].id = id
    THEN CHOOSE i \in 1..Len(l) : l[i].id = id
    ELSE 0

\* C21: findOptimalDriver returns every candidate once, with its matchScore
\* added, in descending order of matchScore, and candidates of equal matchScore
\* in the order they had in the input.
C21_RankedDescendingStable ==
    matched.done =>
        LET drivers == matched.drivers
            result == matched.result
        IN  /\ Len(result) = Len(drivers)
            /\ \A i \in 1..Len(drivers) :
                  LET at == PositionOf(result, drivers[i].id)
                  IN  /\ at > 0
                      /\ result[at].sub = drivers[i].sub
                      /\ result[at].matchScore = calculateDriverScore(drivers[i].sub)
            /\ \A i, j \in 1..Len(result) :
                  i < j =>
                      /\ result[i].matchScore >= result[j].matchScore
                      /\ result[i].matchScore = result[j].matchScore =>
                            PositionOf(drivers, result[i].id)
                                < PositionOf(drivers, result[j].id)

\* a ranking that moved a later candidate to the front and kept two candidates
\* of equal matchScore, reached through different sub-scores, in input order
C21_Witness ==
    /\ matched.done
    /\ Len(matched.result) = 3
    /\ matched.result[1].id = matched.drivers[3].id
    /\ matched.result[2].id = matched.drivers[1].id
    /\ matched.result[3].id = matched.drivers[2].id
    /\ matched.result[2].matchScore = matched.result[3].matchScore
    /\ matched.result[2].sub # matched.result[3].sub
    /\ matched.result[1].matchScore > matched.result[2].matchScore

(***************************************************************************)
(* The actions of the threat bands                                         *)
(***************************************************************************)
\* C22: a scored activity has triggered exactly the action of its band when its
\* detectAdvancedThreats call returns: at 75 and above the user is marked
\* HIGH_THREAT and a HIGH incident is recorded, and the user is marked suspended
\* if and only if the score is 95 or more; from 50 to 74 a MEDIUM incident is
\* recorded and the user document is not written; from 30 to 49 only the LOW
\* counter moves; below 30 nothing is triggered.
C22_BandActions ==
    lastDetect.done =>
        LET call == lastDetect.call
            score == call.score
        IN  /\ score >= 75 =>
                  /\ call.update = "HIGH_THREAT"
                  /\ call.incident = "HIGH"
                  /\ lastDetect.counted = "high"
                  /\ call.suspended <=> score >= 95
            /\ (score >= 50 /\ score <= 74) =>
                  /\ call.update = "none"
                  /\ call.incident = "MEDIUM"
                  /\ lastDetect.counted = "medium"
            /\ (score >= 30 /\ score <= 49) =>
                  /\ call.update = "none"
                  /\ call.incident = "none"
                  /\ lastDetect.counted = "low"
            /\ score < 30 =>
                  /\ call.update = "none"
                  /\ call.incident = "none"
                  /\ lastDetect.counted = "none"

(***************************************************************************)
(* Properties of concurrent runs and of the retry loop.                    *)
(***************************************************************************)
\* C23: while a breaker is HALF_OPEN at most one attempt is let through: a run
\* called on a HALF_OPEN breaker, while another caller is still in the trial of
\* the run that moved this breaker from OPEN to HALF_OPEN, is not let through to
\* an attempt.
C23_SingleTrialInHalfOpen ==
    (lastStep.kind = "call" /\ lastStep.before.state = "HALF_OPEN")
    => \/ run[lastStep.caller].pc # "attempt"
       \/ \A d \in Callers \ {lastStep.caller} :
             ~ /\ run[d].pc \in {"attempt", "running"}
               /\ run[d].key = lastStep.key
               /\ run[d].attempt = 1
               /\ run[d].entryReset = lastStep.before.resetTime

\* C24: the failures of concurrent runs on one key are recorded one after the
\* other: a failure recorded on a CLOSED breaker (or on a key without breaker)
\* raises the count by exactly one and opens the breaker exactly when the count
\* reaches maxFailures; a failure recorded on a breaker that is already OPEN
\* leaves its failure count and resetTime unchanged; the breaker goes OPEN only
\* from CLOSED at the threshold or from HALF_OPEN.
C24_ConcurrentFailuresSerialized ==
    LET a == circuitBreakers[lastStep.key]
        b == lastStep.before
        c == lastStep.caller
    IN  (lastStep.kind = "failure" /\ (run[c].overlapped \/ OthersOn(c, lastStep.key) # {}))
        => /\ b.state \in {"NONE", "CLOSED"} =>
                 /\ a.failures = b.failures + 1
                 /\ (a.state = "OPEN") = (b.failures + 1 >= cfg.maxFailures)
           /\ b.state = "OPEN" => a = b
           /\ (a.state = "OPEN" /\ b.state # "OPEN") =>
                 /\ a.resetTime = lastStep.at + cfg.resetTimeoutMs
                 /\ b.state = "HALF_OPEN" \/ b.failures + 1 >= cfg.maxFailures

\* two runs overlap, the failure of one has opened the breaker at the threshold
\* of 2, and the failure of the other is recorded on the OPEN breaker
C24_Witness ==
    /\ lastStep.kind = "failure"
    /\ cfg.maxFailures = 2
    /\ lastStep.before.state = "OPEN"
    /\ lastStep.before.failures = 2
    /\ run[lastStep.caller].overlapped
    /\ \A d \in Callers : run[d].calls >= 1
    /\ circuitBreakers[lastStep.key] = lastStep.before

\* C25: within the retry loop of a run, no attempt after the first invokes the
\* operation while the breaker of the key is OPEN and not past resetTime.
C25_NoAttemptWhileOpen ==
    (lastStep.kind = "invoke" /\ run[lastStep.caller].attempt >= 2)
    => ~ /\ lastStep.before.state = "OPEN"
         /\ lastStep.at <= lastStep.before.resetTime

C27_ReleasedInReverseOrder ==
    LET held == lastOp.held
        exits == lastOp.kind = "finally"
                     \/ (lastOp.kind = "acquire" /\ lastOp.result = "undefined_type")
    IN  /\ \A t \in Tasks :
              /\ Len(task[t].held) <= Len(task[t].reqs)
              /\ \A i \in 1..Len(task[t].held) : task[t].held[i] = task[t].reqs[i]
        /\ exits =>
              /\ Len(lastOp.released) = Len(held)
              /\ \A i \in 1..Len(held) :
                    lastOp.released[i] = held[Len(held) + 1 - i].resourceType

(***************************************************************************)
(* The validity window of a cache entry.                                   *)
(***************************************************************************)
\* C28: a get on a key whose entry was stored at t0 with a ttl, and is still in
\* the cache, returns the stored value whenever now - t0 <= ttl, the instant
\* now - t0 = ttl included.
C28_ValidThroughTtl ==
    (lastGet.done /\ lastSet[lastGet.key].done /\ cache[lastGet.key].present
        /\ lastGet.at - lastSet[lastGet.key].at
              <= lastSet[lastGet.key].ttlMinutes * 60 * 1000)
    => lastGet.ret = cache[lastGet.key].data

(***************************************************************************)
(* The value of the optimal TTL.                                           *)
(***************************************************************************)
\* C29: calculateOptimalTTL returns baseMinutes for a key with fewer than 5
\* recorded accesses; otherwise it returns floor(baseMinutes * m) held within
\* 1..120, where m is 3.0 for more than 50 accesses in the last hour, 2.0 for more
\* than 20, 0.5 for fewer than 5, else 1.0, times 1.2 when there are more than 10
\* samples and the hit rate is above 0.9, times 0.8 when there are more than 10
\* samples and the hit rate is below 0.3 (60 accesses, 19 hits of 20, 5 minutes: 18).
C29_OptimalTtlValue ==
    lastTtl.done =>
        LET pattern == accessPatterns[lastTtl.key]
            stats == hitRates[lastTtl.key]
            base == lastTtl.baseMinutes
            f == Cardinality({i \in 1..Len(pattern) : lastTtl.at - pattern[i] < OneHour})
            byAccesses == IF f > 50 THEN 30 ELSE IF f > 20 THEN 20 ELSE IF f < 5 THEN 5 ELSE 10
            byHits == IF stats.total > 10 /\ 10 * stats.hits > 9 * stats.total THEN 12
                      ELSE IF stats.total > 10 /\ 10 * stats.hits < 3 * stats.total THEN 8
                      ELSE 10
            floored == (base * byAccesses * byHits) \div 100
        IN  lastTtl.result =
                IF Len(pattern) < 5 THEN base
                ELSE IF floored < 1 THEN 1
                ELSE IF floored > 120 THEN 120
                ELSE floored

(***************************************************************************)
(* The bound of the logs.                                                  *)
(***************************************************************************)
\* C30: the access log of a key, the activity window of a user and the metric
\* series of a function never hold more than 200 entries after an append; an
\* append that would make the log exceed 200 entries leaves exactly the 100 most
\* recent ones, the new entry last; an append below the bound drops nothing.
C30_LogsBounded ==
    /\ \A k \in SmartKeys : Len(accessPatterns[k]) <= 200
    /\ \A u \in ThreatUsers : Len(suspiciousPatterns[u]) <= 200
    /\ \A f \in MetricNames : Len(metrics[f]) <= 200
    /\ lastAppend.done =>
          LET before == lastAppend.before
              after == lastAppend.after
              n == Len(before)
          IN  IF n + 1 > 200
              THEN /\ Len(after) = 100
                   /\ \A i \in 1..99 : after[i] = before[n - 99 + i]
                   /\ <<after[100]>> = lastAppend.entry
              ELSE /\ Len(after) = n + 1
                   /\ \A i \in 1..n : after[i] = before[i]
                   /\ <<after[n + 1]>> = lastAppend.entry

\* an append to a metric series of 200 entries has left entries 102 to 200 and
\* the new one
C30_Witness ==
    /\ lastAppend.done
    /\ lastAppend.log = "metric"
    /\ Len(lastAppend.before) = 200
    /\ Len(lastAppend.after) = 100
    /\ lastAppend.after[1] = lastAppend.before[102]
    /\ <<lastAppend.after[100]>> = lastAppend.entry


(***************************************************************************)
(* The range of the sub-scores and of the match score.                     *)
(***************************************************************************)
\* C31: each of the five sub-scores (distance, performance, availability,
\* preference, realtime) of a calculateDriverScore call lies in 0..100, and so
\* does the matchScore it returns (kept in hundredths of a point).
C31_ScoresInRange ==
    lastScore.done =>
        /\ \A factor \in DOMAIN lastScore.sub : lastScore.sub[factor] \in 0..100
        /\ lastScore.matchScore \in 0..(100 * 100)


(***************************************************************************)
(* The next run of a periodic job.                                         *)
(***************************************************************************)
\* the intervals of the system-job registry, in ms
RegistryInterval ==
    [auto_cleanup |-> 30 * 60000, performance_monitoring_report |-> 10 * 60000,
     cache_optimization_preload |-> 60 * 60000, security_report_generation |-> 30 * 60000,
     resource_monitoring_snapshot |-> 5 * 60000, driver_spatial_index_cleanup |-> 10 * 60000,
     demand_prediction_update |-> 15 * 60000,
     driver_utilization_prediction_update |-> 30 * 60000]

\* C32: when a system job (all periodic) completes successfully, its status is
\* scheduled again, its retryCount is 0 and its nextRun is the completion time
\* plus the interval of the registry: 30 min, 10 min, 1 h, 30 min, 5 min,
\* 10 min, 15 min and 30 min.
C32_PeriodicRescheduled ==
    [][\A o \in DOMAIN jobObjs :
          JobSucceeds(o) =>
              /\ jobObjs'[o].status = "scheduled"
              /\ jobObjs'[o].retryCount = 0
              /\ jobObjs'[o].nextRun = now + RegistryInterval[jobObjs[o].id]]_vars


(***************************************************************************)
(* The bound of currentlyRunning.                                          *)
(***************************************************************************)
\* C33: currentlyRunning never holds more than maxConcurrentJobs ids, and no
\* step starts an execution of a job whose id is in currentlyRunning.
C33_RunningBounded ==
    /\ Cardinality(currentlyRunning) <= maxConcurrentJobs
    /\ [][/\ Cardinality(currentlyRunning') <= maxConcurrentJobs'
          /\ \A o \in DOMAIN jobObjs :
                (jobObjs[o].exec # "running" /\ jobObjs'[o].exec = "running") =>
                    /\ jobObjs[o].id \notin currentlyRunning
                    /\ jobObjs[o].id \in currentlyRunning']_vars

\* the set is full, and the job of an id in it has been scheduled anew: the new
\* job object is due and waits for the id to leave the set
C33_Witness ==
    /\ Cardinality(currentlyRunning) = maxConcurrentJobs
    /\ \E j \in currentlyRunning :
          /\ jobs[j] # 0
          /\ jobObjs[jobs[j]].status = "scheduled"
          /\ jobObjs[jobs[j]].exec = "none"
          /\ jobObjs[jobs[j]].nextRun <= now


(***************************************************************************)
(* The outcome and the metric of a tracked call.                           *)
(***************************************************************************)
\* C34: a trackFunction call returns the result of the function when the
\* function succeeds and rethrows the error of the function when it fails, and
\* in both cases has appended exactly one metric, whose success flag is the
\* outcome of the function; also when an alert was raised and persisting it
\* failed.
C34_TrackedOutcome ==
    lastTrack.done =>
        /\ lastTrack.fn = "resolved" =>
              lastTrack.outcome = "returned" /\ lastTrack.recorded = <<TRUE>>
        /\ lastTrack.fn = "rejected" =>
              lastTrack.outcome = "threw_fn" /\ lastTrack.recorded = <<FALSE>>


(***************************************************************************)
(* The activeDispatch unit of a dispatch call.                             *)
(***************************************************************************)
\* C35: every dispatchOrder call that processes an order holds one
\* activeDispatch unit, and only those do: the counter is the number of calls
\* between their acquisition and their exit, so it is back at its value when all
\* calls have completed; and a call that reaches the acquisition while units
\* are free is admitted, takes one unit and processes the order.
C35_HoldsOneUnit ==
    /\ [](resourceUsage.activeDispatch
             = Cardinality({d \in DOMAIN dispatch : dispatch[d].pc = "searching"}))
    /\ [][\A d \in DOMAIN dispatch :
             (/\ dispatch[d].pc = "tracking"
              /\ dispatch'[d].pc # "tracking"
              /\ resourceUsage.activeDispatch + 1 <= resourceLimits.maxConcurrentDispatch)
             => /\ dispatch'[d].pc = "searching"
                /\ resourceUsage'.activeDispatch = resourceUsage.activeDispatch + 1]_vars


(***************************************************************************)
(* Properties of the optimized driver search.                              *)
(***************************************************************************)
\* C36: the candidate list a getAvailableDriversOptimized call computes, caches and
\* returns holds only drivers of the list its own fetch returned, and its radius
\* query ran on the index its own updateSpatialIndex installed: no other order's
\* upsert and no clear of the index came in between.
C36_OwnFetchOnly ==
    (lastSearch.done /\ ~lastSearch.fromCache) =>
        /\ \A i \in 1..Len(lastSearch.candidates) :
               lastSearch.candidates[i].driver \in Range(lastSearch.drivers)
        /\ lastSearch.queried = lastSearch.installed


\* C37: a periodic job stays schedulable: whenever a periodic job of the table is not
\* executing, a later tick can dispatch it again, that is, its status is scheduled,
\* or failed with a retry left; also after a run that failed or timed out with its
\* last retry used up.
C37_PeriodicKeepsRunning ==
    \A j \in DOMAIN jobs :
        jobs[j] # 0 =>
            LET job == jobObjs[jobs[j]]
            IN  (job.schedule.type # "number" /\ job.exec = "none") =>
                    \/ job.status = "scheduled"
                    \/ job.status = "failed" /\ job.retryCount < job.maxRetries


\* job id j was scheduled again while its previous job was executing: the table
\* holds a job object that has not been dispatched yet, and an older job object
\* of the same id is still in its executeJob
ReplacedWhileRunning(j) ==
    /\ jobs[j] # 0
    /\ jobObjs[jobs[j]].exec = "none"
    /\ \E x \in DOMAIN jobObjs : /\ x # jobs[j]
                                /\ jobObjs[x].id = j
                                /\ jobObjs[x].exec \in {"running", "logging"}

\* C38: a job scheduled under an id whose previous job is still executing stays in
\* the job table: no step takes the id out of the table, whatever the outcome of
\* the old execution (so a later tick can dispatch the new job).
C38_RescheduleIsDurable ==
    [][\A j \in DOMAIN jobs : ReplacedWhileRunning(j) => jobs'[j] # 0]_vars


\* C39: the job functions actually executing never exceed maxConcurrentJobs, and no
\* job's function executes in two overlapping instances: a function that lost the
\* race to its timer is no longer running when the job is dispatched again or
\* another job takes the slot.
C39_NoOverlappingExecutions ==
    /\ FunctionsExecuting <= maxConcurrentJobs
    /\ \A o \in DOMAIN jobObjs : ~(o \in abandoned /\ jobObjs[o].exec = "running")


\* C40: a breaker never goes from OPEN directly to CLOSED: an existing breaker (OPEN
\* or HALF_OPEN) becomes CLOSED only from HALF_OPEN and only by the recordSuccess of
\* an attempt on its key; and the recordSuccess or recordFailure of an attempt that
\* ends while the breaker is OPEN (an attempt that was invoked before it opened)
\* leaves state, failures and resetTime as they are.
C40_OpenLeavesOnlyByHalfOpen ==
    [][\A k \in Keys :
          LET b == circuitBreakers[k]
              reported == \E c \in Callers :
                              /\ run[c].key = k
                              /\ \/ AttemptSucceeds(c)
                                 \/ \E error \in OperationErrors : AttemptFails(c, error)
          IN  /\ b.state = "OPEN" => circuitBreakers'[k].state # "CLOSED"
              /\ (b.state \in {"OPEN", "HALF_OPEN"} /\ circuitBreakers'[k].state = "CLOSED")
                     => /\ b.state = "HALF_OPEN"
                        /\ \E c \in Callers : run[c].key = k /\ AttemptSucceeds(c)
              /\ (b.state = "OPEN" /\ reported) => circuitBreakers'[k] = b]_vars

\* an attempt that was running when the breaker opened has just reported its
\* success, and the breaker is OPEN as before, with the same failures and resetTime
C40_Witness ==
    /\ lastStep.kind = "success"
    /\ lastStep.before.state = "OPEN"
    /\ lastStep.before.failures > 0
    /\ circuitBreakers[lastStep.key] = lastStep.before

====
